---- MODULE Spec2Model ----
(***************************************************************************)
(* wiretap: activity scopes and trace emission.                            *)
(*                                                                         *)
(* The module models wiretap.tracing.Activity (tracing/activity.py) with   *)
(* its lifecycle guards (ActivityStartLogged, OneTimeFalse, PendingTrace), *)
(* the begin_activity scope, the current_activity ContextVar and the       *)
(* records handed to logging, the telemetry_context scope of telemetry.py  *)
(* with its FluentTraceLogger (loggers_fluent.py), and the begin_telemetry *)
(* scope of wiretap.py with its TraceLogger.                               *)
(*                                                                         *)
(* An execution context is the main context (0) or an asyncio task; each   *)
(* has its own copy of the ContextVar, taken when the task is created.     *)
(* Every scope is opened by a fresh Activity object, as begin_activity     *)
(* does, so an Activity is entered at most once.                           *)
(***************************************************************************)
EXTENDS Integers, Sequences, FiniteSets, TLC

\* ------------------------------------------------------------------ bounds
MaxAct == 1      \* scope objects created in one behaviour (Spec)
MaxLog == 3      \* body trace calls stop once the log holds this many records
MaxTask == 2     \* asyncio tasks besides the main context (SpecAsync)
MaxScope == 2    \* scopes opened in one behaviour of SpecAsync

VARIABLES
    acts,      \* Seq of scope objects: an Activity (tracing) or a
               \* FluentTraceLogger (telemetry_context), in creation order
    nodes,     \* Seq of Node(value, parent) objects, in creation order
    current,   \* context -> value of current_activity (node index, 0 = None)
    current_logger, \* context -> value of current_logger (telemetry.py)
    stack,     \* context -> the open with-statements, innermost last
    exc,       \* context -> the exception in flight (NoExc when none)
    log,       \* the records handed to logging.Logger.log, in order
    held,      \* activity -> the Trace builder the body holds (NoTrace if none)
               \* and whether log() was called on it
    spawned,   \* context -> alive, the creating context and the value of
               \* current_activity it was created with
    scope,     \* history: per activity, what its scope saw on entry and exit
    _scope,    \* context -> value of the _scope ContextVar of wiretap.py
    decorated, \* one decorated call: the bound arguments, the return value,
               \* include_args and include_result
    filtered,  \* the outcomes of the formatting steps applied to the call
    decorator, \* what a decorator keeps between the calls of its function
    factory,   \* the process-wide log record factory (logging.setLogRecordFactory)
    threads,   \* thread -> where it is in the code it runs, and its locals
    lock,      \* ProcedureContext.lock: the thread that holds it, 0 if free
    procedure_calls \* the dict of procedure_calls: name path -> count

\* the state that is not kept in a ContextVar or in a scope object
Shared == <<decorator, factory, threads, lock, procedure_calls>>

vars == <<acts, nodes, current, current_logger, stack, exc, log, held, spawned, scope, _scope,
          decorated, filtered, Shared>>

Ctx == 0..MaxTask

\* ------------------------------------------------------------- exceptions
NoExc == "none"
ProtocolErrors == {"ActivityStartMissing", "ActivityAlreadyStarted", "PreviousTraceNotLogged"}
AppErrors == {"ZeroDivisionError", "ValueError"}
\* LogAbortWhen(ZeroDivisionError): the exceptions the hook reclassifies
AbortExceptions == {"ZeroDivisionError"}
\* what an on_begin hook that fails raises
HookError == "ValueError"
\* asyncio.CancelledError: a BaseException that is not an Exception, so an
\* 'except Exception' clause does not catch it
NotAnException == {"CancelledError"}

\* ------------------------------------------------------------ Trace builder
\* Trace(name, log): name, message, level, exc_info and the log callback the
\* factory bound it to ("start" = _log_start, "other" = _log_other,
\* "final" = _log_final).  details, attachment and extra are not modelled.
Trace(name, callback) ==
    [name |-> name, log |-> callback, message |-> "", level |-> "INFO", exc_info |-> FALSE]

NoTrace == Trace("", "")
NoHeld == [tr |-> NoTrace, logged |-> FALSE]

with_message(tr, value) == [tr EXCEPT !.message = value]
with_exc_info(tr, value) == [tr EXCEPT !.exc_info = value]
as_debug(tr) == [tr EXCEPT !.level = "DEBUG"]
as_info(tr) == [tr EXCEPT !.level = "INFO"]
as_warning(tr) == [tr EXCEPT !.level = "WARNING"]
as_error(tr) == [tr EXCEPT !.level = "ERROR"]

\* StartTrace
StartTrace_trace(name) == as_info(Trace(name, "start"))
trace_begin == as_info(Trace("begin", "start"))
\* OtherTrace
OtherTrace_trace(name) == as_debug(Trace(name, "other"))
trace_info(message) == as_debug(with_message(Trace("info", "other"), message))
trace_item == as_debug(Trace("item", "other"))
trace_skip(message) == as_debug(with_message(Trace("skip", "other"), message))
trace_metric == as_debug(Trace("metric", "other"))
\* FinalTrace
FinalTrace_trace(name) == as_info(Trace(name, "final"))
trace_noop(message) == as_info(with_message(Trace("noop", "final"), message))
trace_abort(message) == as_warning(with_message(Trace("abort", "final"), message))
trace_error(message) == with_exc_info(as_error(with_message(Trace("error", "final"), message)), TRUE)
trace_end == as_info(Trace("end", "final"))

\* the builders a scope body asks for: one start, one other and two final
\* traces; the remaining names of a group reach the same callback
BodyStart == {trace_begin}
BodyOther == {trace_info("msg")}
BodyFinal == {trace_noop("msg"), trace_end}
BodyTraces == BodyStart \cup BodyOther \cup BodyFinal

\* --------------------------------------------------------- Activity object
\* The lifecycle fields Activity.__init__ creates.  The constructor arguments
\* are read by one method each (auto_begin and on_begin by __enter__, on_error
\* by __exit__) and an Activity is entered once, so they are inputs of Enter
\* and Exit and recorded in the scope history:
\*   on_begin: "none" (the default identity), "hook" (adds a message), "raises"
\*   on_error: "none" (the default no-op), "LogAbortWhen"
Activity ==
    [started |-> FALSE,      \* self._started._value
     finalized |-> FALSE,    \* self._finalized.state
     pending |-> "",         \* self._tracing.name ("" = None)
     token |-> 0]            \* self._token: the value reset() restores

\* the result of a method: the object afterwards, the records it handed to
\* the logger, and the exception it raised
Res(A, out, e) == [act |-> A, out |-> out, exc |-> e]
Ok(A) == Res(A, <<>>, NoExc)

\* r; then F on the object r left, unless r raised
Bind(r, F(_)) ==
    IF r.exc # NoExc THEN r
    ELSE LET s == F(r.act) IN Res(s.act, r.out \o s.out, s.exc)

\* the arguments PendingTrace.register gives the PreviousTraceNotLogged it raises
PreviousTraceNotLogged(A, name) == [trace |-> name, previous |-> A.pending]

\* register without the check for a pending trace
register_unguarded(A, name) == Ok([A EXCEPT !.pending = name])

\* PendingTrace.register / PendingTrace.clear
register(A, name) ==
    IF A.pending # "" THEN Res(A, <<>>, "PreviousTraceNotLogged")
    ELSE Ok([A EXCEPT !.pending = name])

clear(A) == [A EXCEPT !.pending = ""]

\* yes_for without the check for an earlier start trace
yes_for_unchecked(A) == Ok([A EXCEPT !.started = TRUE])

\* ActivityStartLogged.yes_for / require_for
yes_for(A) ==
    IF A.started THEN Res(A, <<>>, "ActivityAlreadyStarted")
    ELSE Ok([A EXCEPT !.started = TRUE])

require_for(A) ==
    IF ~A.started THEN Res(A, <<>>, "ActivityStartMissing")
    ELSE Ok(A)

\* OneTimeFalse.__bool__: returns the state and leaves it True
OneTimeFalse(A) == [value |-> A.finalized, act |-> [A EXCEPT !.finalized = TRUE]]

\* the record Activity._log hands to the logger; group tells which of the
\* three callbacks emitted it (history, not a field of the LogRecord)
Record(a, tr) ==
    [activity |-> a, trace |-> tr.name, level |-> tr.level, exc_info |-> tr.exc_info,
     message |-> tr.message, group |-> tr.log]

\* Activity._log
_log(a, A, tr) == Res(clear(A), <<Record(a, tr)>>, NoExc)

\* Activity._log_start
_log_start(a, A, tr) == Bind(yes_for(A), LAMBDA B : _log(a, B, tr))

\* _log_other consuming the one-time flag as _log_final does
_log_other_finalizing(a, A, tr) ==
    Bind(require_for(OneTimeFalse(A).act), LAMBDA B : _log(a, B, tr))

\* Activity._log_other
_log_other(a, A, tr) == Bind(require_for(A), LAMBDA B : _log(a, B, tr))

\* Activity._log_final
_log_final(a, A, tr) ==
    LET f == OneTimeFalse(A) IN
    IF f.value THEN Ok(f.act)
    ELSE Bind(require_for(f.act), LAMBDA B : _log(a, B, tr))

\* Trace.log: calls the callback the builder was created with
Trace_log(a, A, tr) ==
    CASE tr.log = "start" -> _log_start(a, A, tr)
      [] tr.log = "other" -> _log_other(a, A, tr)
      [] OTHER -> _log_final(a, A, tr)

\* Activity._trace._factory: registers the name, then returns the builder
_factory(A, tr) == register(A, tr.name)

\* the fluent call  activity.<group>.trace_x(...).log()
TraceAndLog(a, A, tr) == Bind(_factory(A, tr), LAMBDA B : Trace_log(a, B, tr))

\* __enter__ logging the builder without running it through on_begin
ApplyOnBegin_skipped(on_begin, tr) == tr

\* the on_begin hook applied by Trace.action
ApplyOnBegin(on_begin, tr) ==
    IF on_begin = "hook" THEN with_message(tr, "hooked") ELSE tr

\* Activity.__enter__ after the ContextVar was set: the auto-begin line
Activity_enter(a, A, auto_begin, on_begin) ==
    IF ~auto_begin THEN Ok(A)
    ELSE Bind(_factory(A, trace_begin),
              LAMBDA B : IF on_begin = "raises" THEN Res(B, <<>>, HookError)
                         ELSE _log_start(a, B, ApplyOnBegin(on_begin, trace_begin)))

\* LogAbortWhen.__call__ / the default on_error
on_error(a, A, hook, e) ==
    IF hook = "LogAbortWhen" /\ e \in AbortExceptions
    THEN TraceAndLog(a, A, trace_abort("Unable to complete"))
    ELSE Ok(A)

\* __exit__ without the isinstance exclusion of the lifecycle errors
Activity_exit_all(a, A, hook, e) ==
    LET handled == e # NoExc
        r == IF handled
             THEN Bind(on_error(a, A, hook, e), LAMBDA B : TraceAndLog(a, B, trace_error("Unhandled")))
             ELSE Ok(A)
    IN  [act |-> r.act, out |-> r.out, exc |-> r.exc,
         reset |-> r.exc = NoExc,
         hooks |-> IF handled THEN <<e>> ELSE <<>>]

\* Activity.__exit__ up to the reset: the hook and the error trace.
\* reset tells whether current_activity.reset(self._token) was reached.
Activity_exit(a, A, hook, e) ==
    LET handled == e # NoExc /\ e \notin ProtocolErrors
        r == IF handled
             THEN Bind(on_error(a, A, hook, e), LAMBDA B : TraceAndLog(a, B, trace_error("Unhandled")))
             ELSE Ok(A)
    IN  [act |-> r.act, out |-> r.out, exc |-> r.exc,
         reset |-> r.exc = NoExc,
         hooks |-> IF handled THEN <<e>> ELSE <<>>]

\* ------------------------------------------------- telemetry_context
\* FluentTraceLogger: InitialTraceLogged, FluentInitialTrace._used and
\* FluentFinalTrace._used, and the token telemetry_context keeps
FluentTraceLogger ==
    [logged |-> FALSE, initial_used |-> FALSE, final_used |-> FALSE, token |-> 0]

\* Used.__bool__: False the first time it is asked, True from then on
Used(flag) == [value |-> flag, state |-> TRUE]

\* InitialTraceLogged.yes / InitialTraceLogged.require
InitialTraceLogged_yes(L) == [L EXCEPT !.logged = TRUE]

InitialTraceLogged_require(L) ==
    IF ~L.logged THEN Res(L, <<>>, "InitialTraceMissing") ELSE Ok(L)

\* FluentTrace.log_trace
log_trace(a, L, name, level, exc_info, message) ==
    Res(L, <<[activity |-> a, trace |-> name, level |-> level, exc_info |-> exc_info,
              message |-> message, group |-> "fluent"]>>, NoExc)

\* FluentInitialTrace.log_begin
log_begin(a, L) ==
    LET u == Used(L.initial_used)
        M == [L EXCEPT !.initial_used = u.state]
    IN  IF u.value THEN Ok(M)
        ELSE LET r == log_trace(a, M, "begin", "INFO", FALSE, "")
             IN  Res(InitialTraceLogged_yes(r.act), r.out, r.exc)

\* FluentOtherTrace.log_info
log_info(a, L) ==
    Bind(InitialTraceLogged_require(L), LAMBDA M : log_trace(a, M, "info", "DEBUG", FALSE, "msg"))

\* FluentFinalTrace._log_trace
FluentFinalTrace_log_trace(a, L, name, level, exc_info, message) ==
    LET u == Used(L.final_used)
        K == [L EXCEPT !.final_used = u.state]
    IN  IF u.value THEN Ok(K)
        ELSE Bind(InitialTraceLogged_require(K),
                  LAMBDA M : log_trace(a, M, name, level, exc_info, message))

\* FluentFinalTrace.log_noop / log_abort / log_end / log_error
log_noop(a, L) == FluentFinalTrace_log_trace(a, L, "noop", "INFO", FALSE, "msg")
log_abort(a, L) == FluentFinalTrace_log_trace(a, L, "abort", "WARNING", FALSE, "Unable to complete")
log_end(a, L) == FluentFinalTrace_log_trace(a, L, "end", "INFO", FALSE, "")
log_error(a, L) == FluentFinalTrace_log_trace(a, L, "error", "ERROR", TRUE, "Unhandled")

\* telemetry.LogAbortWhen.__call__ / the default on_error
telemetry_on_error(a, L, hook, e) ==
    IF hook = "LogAbortWhen" /\ e \in AbortExceptions THEN log_abort(a, L) ELSE Ok(L)

\* telemetry_context from the exception thrown into the generator on: the
\* except clauses (the finally clause resets current_logger on every path)
telemetry_context_exit(a, L, hook, e) ==
    LET handled == e \notin {NoExc, "InitialTraceMissing"} \cup NotAnException
        r == IF handled
             THEN Bind(telemetry_on_error(a, L, hook, e), LAMBDA M : log_error(a, M))
             ELSE Ok(L)
    IN  [act |-> r.act, out |-> r.out, exc |-> r.exc,
         hooks |-> IF handled THEN <<e>> ELSE <<>>]

\* ------------------------------------------------------------ ContextVar
\* current_activity as a module-level variable shared by all contexts
Slot_global(t) == 0

\* current_activity is a ContextVar: context t reads and writes its own slot
Slot(t) == t

Top(s) == s[Len(s)]
Pop(s) == SubSeq(s, 1, Len(s) - 1)

\* history record of one scope: the API and context it was opened in, the
\* arguments, the slot value before entry (pre) and after exit (post, -1
\* while open), the exception the body ended with and the one that left the
\* scope, and the exceptions on_error was called with
NewScope(api, t, auto_begin, on_begin, pre) ==
    [api |-> api, ctx |-> t, auto_begin |-> auto_begin, on_begin |-> on_begin,
     kind |-> "", on_error |-> "", pre |-> pre, post |-> -1, state |-> "open",
     bodyExc |-> NoExc, outExc |-> NoExc, hooks |-> <<>>]

\* no decorated call is being formatted
NoCall == <<>>

\* no decorator, the log record factory of logging, no thread besides the
\* main one, the lock free and an empty procedure_calls
NoShared ==
    /\ decorator = <<>>
    /\ factory = <<>>
    /\ threads = <<>>
    /\ lock = 0
    /\ procedure_calls = <<>>

\* no scope was opened yet
NoScopes ==
    /\ acts = <<>>
    /\ nodes = <<>>
    /\ current = [t \in Ctx |-> 0]
    /\ current_logger = [t \in Ctx |-> 0]
    /\ stack = [t \in Ctx |-> <<>>]
    /\ exc = [t \in Ctx |-> NoExc]
    /\ log = <<>>
    /\ held = <<>>
    /\ spawned = [t \in Ctx |-> [alive |-> t = 0, by |-> 0, base |-> 0]]
    /\ scope = <<>>
    /\ _scope = [t \in Ctx |-> 0]

Init ==
    /\ acts = <<>>
    /\ nodes = <<>>
    /\ current = [t \in Ctx |-> 0]
    /\ current_logger = [t \in Ctx |-> 0]
    /\ stack = [t \in Ctx |-> <<>>]
    /\ exc = [t \in Ctx |-> NoExc]
    /\ log = <<>>
    /\ held = <<>>
    /\ spawned = [t \in Ctx |-> [alive |-> t = 0, by |-> 0, base |-> 0]]
    /\ scope = <<>>
    /\ _scope = [t \in Ctx |-> 0]
    /\ decorated = NoCall
    /\ filtered = <<>>
    /\ NoShared

Idle(t) == spawned[t].alive /\ exc[t] = NoExc

\* an assignment that lands in the class attribute every instance reads
Store_class(a, A) ==
    [b \in DOMAIN acts |->
        IF b = a THEN A
        ELSE [acts[b] EXCEPT !.started = A.started, !.finalized = A.finalized]]

\* self.state = True, self._value = True, self.name = name: the methods of
\* activity a assign to attributes of its own objects
Store(a, A) == [acts EXCEPT ![a] = A]

\* the body of the innermost open scope of t belongs to this API
InBody(t, api) == Idle(t) /\ stack[t] # <<>> /\ scope[Top(stack[t])].api = api

\* with Activity(...) / with begin_activity(...): __init__ and __enter__
Enter(t, auto_begin, on_begin, limit) ==
    /\ Idle(t)
    /\ Len(acts) < limit
    /\ LET a == Len(acts) + 1
           parent == current[Slot(t)]
           A == [Activity EXCEPT !.token = parent]
           r == Activity_enter(a, A, auto_begin, on_begin)
           s == NewScope("tracing", t, auto_begin, on_begin, parent)
       IN  /\ nodes' = Append(nodes, [value |-> a, parent |-> parent])
           /\ current' = [current EXCEPT ![Slot(t)] = Len(nodes) + 1]
           /\ acts' = Append(acts, r.act)
           /\ held' = Append(held, NoHeld)
           /\ log' = log \o r.out
           /\ exc' = [exc EXCEPT ![t] = r.exc]
           /\ stack' = IF r.exc = NoExc THEN [stack EXCEPT ![t] = Append(@, a)] ELSE stack
           /\ scope' = Append(scope,
                  IF r.exc = NoExc THEN s
                  ELSE [s EXCEPT !.state = "failed", !.outExc = r.exc, !.post = Len(nodes) + 1])
    /\ UNCHANGED <<current_logger, spawned, _scope, decorated, filtered, Shared>>

\* the body asks the innermost activity for a builder and keeps it
NewTrace(t, tr) ==
    /\ InBody(t, "tracing")
    /\ LET a == Top(stack[t])
           r == _factory(acts[a], tr)
       IN  /\ acts' = Store(a, r.act)
           /\ held' = IF r.exc = NoExc THEN [held EXCEPT ![a] = [tr |-> tr, logged |-> FALSE]] ELSE held
           /\ exc' = [exc EXCEPT ![t] = r.exc]
    /\ UNCHANGED <<nodes, current, current_logger, stack, log, spawned, scope, _scope, decorated, filtered, Shared>>

\* the body calls log() on the builder it holds (possibly once more)
Log(t) ==
    /\ InBody(t, "tracing")
    /\ Len(log) < MaxLog
    /\ LET a == Top(stack[t])
           r == Trace_log(a, acts[a], held[a].tr)
       IN  /\ held[a].tr # NoTrace
           /\ acts' = Store(a, r.act)
           /\ held' = [held EXCEPT ![a].logged = TRUE]
           /\ log' = log \o r.out
           /\ exc' = [exc EXCEPT ![t] = r.exc]
    /\ UNCHANGED <<nodes, current, current_logger, stack, spawned, scope, _scope, decorated, filtered, Shared>>

\* the body raises an application exception
Raise(t, e) ==
    /\ Idle(t)
    /\ stack[t] # <<>>
    /\ exc' = [exc EXCEPT ![t] = e]
    /\ UNCHANGED <<acts, nodes, current, current_logger, stack, log, held, spawned, scope, _scope, decorated, filtered, Shared>>

\* the host cancels the task while the body is suspended in an await:
\* asyncio.CancelledError is thrown into the body
Cancel(t) ==
    /\ Idle(t)
    /\ stack[t] # <<>>
    /\ exc' = [exc EXCEPT ![t] = "CancelledError"]
    /\ UNCHANGED <<acts, nodes, current, current_logger, stack, log, held, spawned, scope, _scope, decorated, filtered, Shared>>

\* a try/except around the failing call handles the exception in flight
Catch(t) ==
    /\ spawned[t].alive
    /\ exc[t] # NoExc
    /\ exc' = [exc EXCEPT ![t] = NoExc]
    /\ UNCHANGED <<acts, nodes, current, current_logger, stack, log, held, spawned, scope, _scope, decorated, filtered, Shared>>

\* leaving the innermost scope: begin_activity's trailing trace_end().log()
\* when the body returned, then Activity.__exit__
Exit(t, kind, hook) ==
    /\ spawned[t].alive
    /\ stack[t] # <<>>
    /\ scope[Top(stack[t])].api = "tracing"
    /\ LET a == Top(stack[t])
           A == acts[a]
           r0 == IF kind = "begin_activity" /\ exc[t] = NoExc
                 THEN TraceAndLog(a, A, trace_end)
                 ELSE Ok(A)
           e1 == IF exc[t] # NoExc THEN exc[t] ELSE r0.exc
           r == Activity_exit(a, r0.act, hook, e1)
           out == IF r.exc # NoExc THEN r.exc ELSE e1
           cur == IF r.reset THEN [current EXCEPT ![Slot(t)] = A.token] ELSE current
       IN  /\ acts' = Store(a, r.act)
           /\ log' = log \o r0.out \o r.out
           /\ current' = cur
           /\ stack' = [stack EXCEPT ![t] = Pop(@)]
           /\ exc' = [exc EXCEPT ![t] = out]
           /\ scope' = [scope EXCEPT ![a] =
                  [@ EXCEPT !.state = "exited", !.kind = kind, !.on_error = hook,
                            !.bodyExc = exc[t], !.outExc = out,
                            !.post = cur[Slot(t)], !.hooks = r.hooks]]
    /\ UNCHANGED <<nodes, current_logger, held, spawned, _scope, decorated, filtered, Shared>>

\* asyncio.create_task: the new task runs in a copy of the creator's context
Spawn(t, u) ==
    /\ Idle(t)
    /\ ~spawned[u].alive
    /\ spawned' = [spawned EXCEPT ![u] = [alive |-> TRUE, by |-> t, base |-> current[Slot(t)]]]
    /\ current' = [current EXCEPT ![Slot(u)] = current[Slot(t)]]
    /\ UNCHANGED <<acts, nodes, current_logger, stack, exc, log, held, scope, _scope, decorated, filtered, Shared>>

\* with telemetry_context(activity, on_error): up to the yield
EnterTelemetry(t, limit) ==
    /\ Idle(t)
    /\ Len(acts) < limit
    /\ LET a == Len(acts) + 1
           parent == current_logger[t]
       IN  /\ nodes' = Append(nodes, [value |-> a, parent |-> parent])
           /\ current_logger' = [current_logger EXCEPT ![t] = Len(nodes) + 1]
           /\ acts' = Append(acts, [FluentTraceLogger EXCEPT !.token = parent])
           /\ held' = Append(held, NoHeld)
           /\ stack' = [stack EXCEPT ![t] = Append(@, a)]
           /\ scope' = Append(scope, NewScope("telemetry", t, FALSE, "none", parent))
    /\ UNCHANGED <<current, exc, log, spawned, _scope, decorated, filtered, Shared>>

\* the body (or the decorator's auto_begin line) calls logger.initial.log_begin(),
\* logger.other.log_info() or logger.final.log_noop() / log_end()
TelemetryCalls == {"begin", "info", "noop", "end"}

TelemetryCall(a, L, call) ==
    CASE call = "begin" -> log_begin(a, L)
      [] call = "info" -> log_info(a, L)
      [] call = "noop" -> log_noop(a, L)
      [] OTHER -> log_end(a, L)

TelemetryLog(t, call) ==
    /\ InBody(t, "telemetry")
    /\ Len(log) < MaxLog
    /\ LET a == Top(stack[t])
           r == TelemetryCall(a, acts[a], call)
       IN  /\ acts' = [acts EXCEPT ![a] = r.act]
           /\ log' = log \o r.out
           /\ exc' = [exc EXCEPT ![t] = r.exc]
    /\ UNCHANGED <<nodes, current, current_logger, stack, held, spawned, scope, _scope, decorated, filtered, Shared>>

\* leaving a telemetry_context scope: the trailing log_end() of
\* begin_telemetry and of the decorator when the body returned ("telemetry"),
\* then the except and finally clauses of telemetry_context
ExitTelemetry(t, kind, hook) ==
    /\ spawned[t].alive
    /\ stack[t] # <<>>
    /\ scope[Top(stack[t])].api = "telemetry"
    /\ LET a == Top(stack[t])
           L == acts[a]
           r0 == IF kind = "telemetry" /\ exc[t] = NoExc THEN log_end(a, L) ELSE Ok(L)
           e1 == IF exc[t] # NoExc THEN exc[t] ELSE r0.exc
           r == telemetry_context_exit(a, r0.act, hook, e1)
           out == IF r.exc # NoExc THEN r.exc ELSE e1
       IN  /\ acts' = [acts EXCEPT ![a] = r.act]
           /\ log' = log \o r0.out \o r.out
           /\ current_logger' = [current_logger EXCEPT ![t] = L.token]
           /\ stack' = [stack EXCEPT ![t] = Pop(@)]
           /\ exc' = [exc EXCEPT ![t] = out]
           /\ scope' = [scope EXCEPT ![a] =
                  [@ EXCEPT !.state = "exited", !.kind = kind, !.on_error = hook,
                            !.bodyExc = exc[t], !.outExc = out,
                            !.post = L.token, !.hooks = r.hooks]]
    /\ UNCHANGED <<nodes, current, held, spawned, _scope, decorated, filtered, Shared>>

Kinds == {"Activity", "begin_activity"}
TelemetryKinds == {"telemetry_context", "telemetry"}
\* on_begin only matters with auto_begin
Begins == {<<FALSE, "none">>, <<TRUE, "none">>, <<TRUE, "hook">>, <<TRUE, "raises">>}
Hooks == {"none", "LogAbortWhen"}

\* one execution context: the lifecycle of scopes and their traces
Next ==
    \/ \E b \in Begins : Enter(0, b[1], b[2], MaxAct)
    \/ \E tr \in BodyTraces : NewTrace(0, tr)
    \/ Log(0)
    \/ \E e \in AppErrors : Raise(0, e)
    \/ Cancel(0)
    \/ Catch(0)
    \/ \E k \in Kinds, h \in Hooks : Exit(0, k, h)
    \/ EnterTelemetry(0, MaxAct)
    \/ \E c \in TelemetryCalls : TelemetryLog(0, c)
    \/ \E k \in TelemetryKinds, h \in Hooks : ExitTelemetry(0, k, h)

Spec == Init /\ [][Next]_vars

\* asyncio tasks: scopes opened and left in several contexts
AsyncBegins == {<<FALSE, "none">>, <<TRUE, "none">>}

NextAsync ==
    \/ \E t \in Ctx, b \in AsyncBegins : Enter(t, b[1], b[2], MaxScope)
    \/ \E t \in Ctx : Raise(t, "ValueError")
    \/ \E t \in Ctx : Catch(t)
    \/ \E t \in Ctx : Exit(t, "begin_activity", "none")
    \/ \E t \in Ctx, u \in Ctx : Spawn(t, u)

SpecAsync == Init /\ [][NextAsync]_vars

\* one execution context with nested and consecutive activities
NextNested ==
    \/ \E b \in AsyncBegins : Enter(0, b[1], b[2], MaxScope)
    \/ \E tr \in BodyTraces : NewTrace(0, tr)
    \/ Log(0)
    \/ Catch(0)
    \/ Exit(0, "begin_activity", "none")

SpecNested == Init /\ [][NextNested]_vars

\* ------------------------------------------- wiretap.py: TraceLogger
\* the set self._traces of a TraceLogger holds group names; "None" stands
\* for the value None that a call without group passes
NoGroup == "None"

\* TraceLogger.__init__, with the token begin_telemetry keeps
TraceLogger == [traces |-> {}, token |-> 0]

\* Logger.log_trace: hands one record to logging
Logger_log_trace(a, name, message, level, exc_info, group) ==
    <<[activity |-> a, trace |-> name, level |-> level, exc_info |-> exc_info,
       message |-> message, group |-> group]>>

\* TraceLogger._log_trace: the name is that of the calling log_ method
TraceLogger_log_trace(a, L, name, message, level, exc_info, group) ==
    IF group \in L.traces THEN Ok(L)
    ELSE Res([L EXCEPT !.traces = @ \cup {group}],
             Logger_log_trace(a, name, message, level, exc_info, group), NoExc)

\* _InitialTraceLogger.log_begin
TraceLogger_log_begin(a, L) == TraceLogger_log_trace(a, L, "begin", "", "INFO", FALSE, "initial")

\* _ExtraTraceLogger.log_info / log_item / log_skip / log_metric
TraceLogger_log_info(a, L) == TraceLogger_log_trace(a, L, "info", "msg", "DEBUG", FALSE, NoGroup)
TraceLogger_log_item(a, L) == TraceLogger_log_trace(a, L, "item", "msg", "DEBUG", FALSE, NoGroup)
TraceLogger_log_skip(a, L) == TraceLogger_log_trace(a, L, "skip", "msg", "DEBUG", FALSE, NoGroup)
TraceLogger_log_metric(a, L) == TraceLogger_log_trace(a, L, "metric", "msg", "DEBUG", FALSE, NoGroup)

\* _FinalTraceLogger.log_noop / log_abort / log_end / log_error; handling
\* tells whether an exception is being handled (_create_exc_info)
TraceLogger_log_noop(a, L) == TraceLogger_log_trace(a, L, "noop", "msg", "INFO", FALSE, "final")
TraceLogger_log_abort(a, L) == TraceLogger_log_trace(a, L, "abort", "msg", "INFO", FALSE, "final")
TraceLogger_log_end(a, L) == TraceLogger_log_trace(a, L, "end", "", "INFO", FALSE, "final")
TraceLogger_log_error(a, L, handling) ==
    TraceLogger_log_trace(a, L, "error", "Unhandled exception has occurred.", "ERROR", handling, "final")

ActiveCalls == {"info", "item", "skip", "metric"}
FinalCalls == {"noop", "abort", "end", "error"}
TraceLoggerCalls == {"begin"} \cup ActiveCalls \cup FinalCalls

\* the group a method of the trace logger passes to _log_trace
GroupOfCall(call) ==
    CASE call = "begin" -> "initial"
      [] call \in ActiveCalls -> NoGroup
      [] OTHER -> "final"

\* tracer.initial.log_begin(), tracer.active.log_x(), tracer.final.log_x()
TraceLoggerCall(a, L, call) ==
    CASE call = "begin" -> TraceLogger_log_begin(a, L)
      [] call = "info" -> TraceLogger_log_info(a, L)
      [] call = "item" -> TraceLogger_log_item(a, L)
      [] call = "skip" -> TraceLogger_log_skip(a, L)
      [] call = "metric" -> TraceLogger_log_metric(a, L)
      [] call = "noop" -> TraceLogger_log_noop(a, L)
      [] call = "abort" -> TraceLogger_log_abort(a, L)
      [] call = "end" -> TraceLogger_log_end(a, L)
      [] OTHER -> TraceLogger_log_error(a, L, FALSE)

\* with begin_telemetry(module, name): up to the yield
BeginTelemetry(t, limit) ==
    /\ Idle(t)
    /\ Len(acts) < limit
    /\ LET a == Len(acts) + 1
           parent == _scope[t]
           r == TraceLogger_log_begin(a, [TraceLogger EXCEPT !.token = parent])
       IN  /\ nodes' = Append(nodes, [value |-> a, parent |-> parent])
           /\ _scope' = [_scope EXCEPT ![t] = Len(nodes) + 1]
           /\ acts' = Append(acts, r.act)
           /\ held' = Append(held, NoHeld)
           /\ log' = log \o r.out
           /\ stack' = [stack EXCEPT ![t] = Append(@, a)]
           /\ scope' = Append(scope, NewScope("wiretap", t, TRUE, "none", parent))
    /\ UNCHANGED <<current, current_logger, exc, spawned, decorated, filtered, Shared>>

\* the body calls a method of the trace logger
TraceLoggerLog(t, call) ==
    /\ InBody(t, "wiretap")
    /\ Len(log) < MaxLog
    /\ LET a == Top(stack[t])
           r == TraceLoggerCall(a, acts[a], call)
       IN  /\ acts' = [acts EXCEPT ![a] = r.act]
           /\ log' = log \o r.out
    /\ UNCHANGED <<nodes, current, current_logger, stack, exc, held, spawned, scope, _scope, decorated, filtered, Shared>>

\* begin_telemetry after the yield: log_end when the body returned, the
\* except clause when it raised an Exception, and the finally clause
EndTelemetry(t) ==
    /\ spawned[t].alive
    /\ stack[t] # <<>>
    /\ scope[Top(stack[t])].api = "wiretap"
    /\ LET a == Top(stack[t])
           L == acts[a]
           r == CASE exc[t] = NoExc -> TraceLogger_log_end(a, L)
                  [] exc[t] \in NotAnException -> Ok(L)
                  [] OTHER -> TraceLogger_log_error(a, L, TRUE)
       IN  /\ acts' = [acts EXCEPT ![a] = r.act]
           /\ log' = log \o r.out
           /\ _scope' = [_scope EXCEPT ![t] = L.token]
           /\ stack' = [stack EXCEPT ![t] = Pop(@)]
           /\ scope' = [scope EXCEPT ![a] =
                  [@ EXCEPT !.state = "exited", !.kind = "begin_telemetry",
                            !.bodyExc = exc[t], !.outExc = exc[t], !.post = L.token]]
    /\ UNCHANGED <<nodes, current, current_logger, exc, held, spawned, decorated, filtered, Shared>>

\* a call of a function decorated with telemetry() of wiretap.py whose
\* parameter is annotated TraceLogger: begin_telemetry up to the yield, then
\* inject_logger makes a TraceLogger of its own around the same Logger
CallDecorated(t, limit) ==
    /\ Idle(t)
    /\ Len(acts) < limit
    /\ LET a == Len(acts) + 1
           parent == _scope[t]
           r == TraceLogger_log_begin(a, [TraceLogger EXCEPT !.token = parent])
       IN  /\ nodes' = Append(nodes, [value |-> a, parent |-> parent])
           /\ _scope' = [_scope EXCEPT ![t] = Len(nodes) + 1]
           /\ acts' = Append(acts, [traces |-> r.act.traces, token |-> r.act.token,
                                    injected |-> TraceLogger])
           /\ held' = Append(held, NoHeld)
           /\ log' = log \o r.out
           /\ stack' = [stack EXCEPT ![t] = Append(@, a)]
           /\ scope' = Append(scope, NewScope("wiretap.telemetry", t, TRUE, "none", parent))
    /\ UNCHANGED <<current, current_logger, exc, spawned, decorated, filtered, Shared>>

\* the decorated function calls a method of the trace logger it was given
InjectedLog(t, call) ==
    /\ InBody(t, "wiretap.telemetry")
    /\ Len(log) < MaxLog
    /\ LET a == Top(stack[t])
           r == TraceLoggerCall(a, acts[a].injected, call)
       IN  /\ acts' = [acts EXCEPT ![a].injected = r.act]
           /\ log' = log \o r.out
    /\ UNCHANGED <<nodes, current, current_logger, stack, exc, held, spawned, scope, _scope,
                   decorated, filtered, Shared>>

\* the decorated function is left: the decorator's log_end when it returned,
\* then begin_telemetry after the yield
ReturnDecorated(t) ==
    /\ spawned[t].alive
    /\ stack[t] # <<>>
    /\ scope[Top(stack[t])].api = "wiretap.telemetry"
    /\ LET a == Top(stack[t])
           L == acts[a]
           r == CASE exc[t] = NoExc ->
                         LET own == TraceLogger_log_end(a, L)
                             gen == TraceLogger_log_end(a, own.act)
                         IN  Res(gen.act, own.out \o gen.out, NoExc)
                  [] exc[t] \in NotAnException -> Ok(L)
                  [] OTHER -> TraceLogger_log_error(a, L, TRUE)
       IN  /\ acts' = [acts EXCEPT ![a] = r.act]
           /\ log' = log \o r.out
           /\ _scope' = [_scope EXCEPT ![t] = L.token]
           /\ stack' = [stack EXCEPT ![t] = Pop(@)]
           /\ scope' = [scope EXCEPT ![a] =
                  [@ EXCEPT !.state = "exited", !.kind = "telemetry",
                            !.bodyExc = exc[t], !.outExc = exc[t], !.post = L.token]]
    /\ UNCHANGED <<nodes, current, current_logger, exc, held, spawned, decorated, filtered, Shared>>

\* one execution context using the scopes of wiretap.py
NextTraceLogger ==
    \/ BeginTelemetry(0, MaxAct)
    \/ CallDecorated(0, MaxAct)
    \/ \E c \in TraceLoggerCalls : InjectedLog(0, c)
    \/ ReturnDecorated(0)
    \/ \E c \in TraceLoggerCalls : TraceLoggerLog(0, c)
    \/ \E e \in AppErrors : Raise(0, e)
    \/ Cancel(0)
    \/ Catch(0)
    \/ EndTelemetry(0)

SpecTraceLogger == Init /\ [][NextTraceLogger]_vars

\* ------------------------------------------------------ depth of a node
\* Node.__iter__ (and Logger.__iter__ of wiretap.py): the node and its
\* ancestors, the node first
RECURSIVE Node_iter(_)
Node_iter(n) == IF n = 0 THEN <<>> ELSE <<n>> \o Node_iter(nodes[n].parent)

RECURSIVE Node_depth(_)

\* a depth that ignores the parent
Node_depth_flat(n) == 1

\* Node.depth (types.py)
Node_depth(n) == IF nodes[n].parent # 0 THEN Node_depth(nodes[n].parent) + 1 ELSE 1

\* ActivityScope.depth (scopes/activity.py)
RECURSIVE ActivityScope_depth(_)
ActivityScope_depth(n) ==
    IF nodes[n].parent # 0 THEN ActivityScope_depth(nodes[n].parent) + 1 ELSE 1

\* ProcedureContext.depth, assigned in __init__ from the parent's depth
RECURSIVE ProcedureContext_depth(_)
ProcedureContext_depth(n) ==
    IF nodes[n].parent # 0 THEN ProcedureContext_depth(nodes[n].parent) + 1 ELSE 1

\* BasicLogger.depth (loggers.py), assigned in __init__ from the parent's depth
RECURSIVE BasicLogger_depth(_)
BasicLogger_depth(n) ==
    IF nodes[n].parent # 0 THEN BasicLogger_depth(nodes[n].parent) + 1 ELSE 1

\* Logger.depth (wiretap.py): sum(1 for _ in self)
Logger_depth(n) == Len(Node_iter(n))

\* ------------------------- scopes/activity.py and contexts/procedure.py
\* a dict is a function from its keys; a | b
NoDict == [k \in {} |-> ""]
Merge(a, b) == [k \in DOMAIN a \cup DOMAIN b |-> IF k \in DOMAIN b THEN b[k] ELSE a[k]]

\* ActivityScope.__init__ and ProcedureContext.__init__
ActivityScope_init(snapshot, kwargs) ==
    [in_progress |-> TRUE, snapshot |-> Merge(snapshot, kwargs)]
ActivityScope == ActivityScope_init(NoDict, NoDict)
ProcedureContext == [in_progress |-> TRUE, trace_count |-> 0]

\* the record an activity hands to logging
Entry(a, name, exc_info, note) ==
    <<[activity |-> a, trace |-> name, level |-> "INFO", exc_info |-> exc_info,
       message |-> "", group |-> NoGroup, note |-> note]>>

\* a log_trace that has no guard and never leaves the in-progress state
ActivityScope_log_trace_unguarded(a, A, name, snapshot, exc_info, in_progress, kwargs) ==
    Res(A, Entry(a, name, exc_info, Merge(snapshot, kwargs)), NoExc)

\* ActivityScope.log_trace
ActivityScope_log_trace(a, A, name, snapshot, exc_info, in_progress, kwargs) ==
    IF ~A.in_progress
    THEN IF in_progress THEN Res(A, <<>>, "Exception") ELSE Ok(A)
    ELSE Res(IF ~in_progress THEN [A EXCEPT !.in_progress = FALSE] ELSE A,
             Entry(a, name, exc_info, Merge(snapshot, kwargs)), NoExc)

\* the Entry a procedure hands to logging refers to the procedure: a handler
\* reads procedure.trace_count while logger.log runs
ProcedureEntry(a, A, name, exc_info) ==
    <<[activity |-> a, trace |-> name, level |-> "INFO", exc_info |-> exc_info,
       message |-> "", group |-> NoGroup, note |-> NoDict,
       trace_count |-> A.trace_count]>>

\* a log_trace that counts the call before it looks at in_progress
ProcedureContext_log_trace_counts_calls(a, A, name, exc_info, in_progress) ==
    LET counted == [A EXCEPT !.trace_count = @ + 1] IN
    IF ~A.in_progress
    THEN IF in_progress THEN Res(counted, <<>>, "Exception") ELSE Ok(counted)
    ELSE Res(IF ~in_progress THEN [counted EXCEPT !.in_progress = FALSE] ELSE counted,
             ProcedureEntry(a, counted, name, exc_info), NoExc)

\* ProcedureContext.log_trace
ProcedureContext_log_trace(a, A, name, exc_info, in_progress) ==
    IF ~A.in_progress
    THEN IF in_progress THEN Res(A, <<>>, "Exception") ELSE Ok(A)
    ELSE LET counted == [A EXCEPT !.trace_count = @ + 1]
         IN  Res(IF ~in_progress THEN [counted EXCEPT !.in_progress = FALSE] ELSE counted,
                 ProcedureEntry(a, counted, name, exc_info), NoExc)

\* the methods of ActivityScope: log_info, log_metric, log_branch, log_end,
\* log_exit, log_error
ActivityScopeCalls == {"info", "metric", "branch", "end", "exit", "error"}
\* a variant in which the snapshot of the call wins over the activity's
ActivityScope_log_call_wins(a, A, call, snapshot, kwargs, handling) ==
    CASE call \in {"info", "metric", "branch"}
             -> ActivityScope_log_trace(a, A, call, snapshot, FALSE, TRUE, kwargs)
      [] call \in {"end", "exit"}
             -> ActivityScope_log_trace(a, A, call, Merge(A.snapshot, snapshot),
                                        FALSE, FALSE, kwargs)
      [] OTHER
             -> LET reason == IF handling THEN [k \in {"reason"} |-> "ValueError"] ELSE NoDict
                IN  ActivityScope_log_trace(a, A, "error",
                                            Merge(A.snapshot, Merge(snapshot, reason)),
                                            TRUE, FALSE, kwargs)

\* handling tells whether an exception is being handled (sys.exc_info)
ActivityScope_log(a, A, call, snapshot, kwargs, handling) ==
    CASE call \in {"info", "metric", "branch"}
             -> ActivityScope_log_trace(a, A, call, snapshot, FALSE, TRUE, kwargs)
      [] call \in {"end", "exit"}
             -> ActivityScope_log_trace(a, A, call, Merge(snapshot, A.snapshot),
                                        FALSE, FALSE, kwargs)
      [] OTHER
             -> LET reason == IF handling THEN [k \in {"reason"} |-> "ValueError"] ELSE NoDict
                IN  ActivityScope_log_trace(a, A, "error",
                                            Merge(Merge(snapshot, reason), A.snapshot),
                                            TRUE, FALSE, kwargs)

\* ProcedureContext.log_last
ProcedureContext_log_last(a, A, name, exc_info) ==
    ProcedureContext_log_trace(a, A, name, exc_info, FALSE)

\* the methods of ProcedureContext: log_snapshot, log_metric, log_info,
\* log_branch (given data), log_last("end"), log_error
ProcedureContextCalls == {"snapshot", "metric", "info", "branch", "end", "error"}
ProcedureContext_log(a, A, call) ==
    CASE call \in {"snapshot", "metric", "info", "branch"}
             -> ProcedureContext_log_trace(a, A, call, FALSE, TRUE)
      [] call = "end" -> ProcedureContext_log_last(a, A, "end", FALSE)
      [] OTHER -> ProcedureContext_log_last(a, A, "error", TRUE)

ScopeKinds == {"ActivityScope", "ProcedureContext"}
ScopeCalls == ActivityScopeCalls \cup ProcedureContextCalls
\* the calls that pass in_progress=True
InProgressCalls == {"info", "metric", "branch", "snapshot"}

\* obj.log_x() on a scope object of either class
Scope_log(a, A, kind, call) ==
    IF kind = "ActivityScope" THEN ActivityScope_log(a, A, call, NoDict, NoDict, FALSE)
    ELSE ProcedureContext_log(a, A, call)

\* an ActivityScope or a ProcedureContext is created under the current one
OpenScope(t, kind, limit) ==
    /\ Idle(t)
    /\ Len(acts) < limit
    /\ LET a == Len(acts) + 1
           parent == IF stack[t] = <<>> THEN 0 ELSE Top(stack[t])
       IN  /\ nodes' = Append(nodes, [value |-> a, parent |-> parent])
           /\ acts' = Append(acts, IF kind = "ActivityScope" THEN ActivityScope
                                   ELSE ProcedureContext)
           /\ held' = Append(held, NoHeld)
           /\ stack' = [stack EXCEPT ![t] = Append(@, a)]
           /\ scope' = Append(scope, NewScope(kind, t, FALSE, "none", parent))
    /\ UNCHANGED <<current, current_logger, exc, log, spawned, _scope, decorated, filtered, Shared>>

\* the code of the activity calls one of its log methods; once the activity
\* is no longer in progress a call adds nothing to the log
ScopeLog(t, call) ==
    /\ Idle(t)
    /\ stack[t] # <<>>
    /\ LET a == Top(stack[t])
           kind == scope[a].api
           r == Scope_log(a, acts[a], kind, call)
       IN  /\ kind \in ScopeKinds
           /\ call \in (IF kind = "ActivityScope" THEN ActivityScopeCalls
                        ELSE ProcedureContextCalls)
           /\ Len(log) < MaxLog \/ ~acts[a].in_progress
           /\ acts' = [acts EXCEPT ![a] = r.act]
           /\ log' = log \o r.out
           /\ exc' = [exc EXCEPT ![t] = r.exc]
    /\ UNCHANGED <<nodes, current, current_logger, stack, held, spawned, scope, _scope,
                   decorated, filtered, Shared>>

\* one execution context using the scope objects
NextScope ==
    \/ \E k \in ScopeKinds : OpenScope(0, k, MaxAct)
    \/ \E c \in ScopeCalls : ScopeLog(0, c)
    \/ Catch(0)

SpecScope == Init /\ [][NextScope]_vars

\* ----------------------------------- the snapshot of an ActivityScope
\* the values of a dict name the place they were given at
SnapshotKeys == {"k", "reason"}
Dicts(keys, source) == {[k \in K |-> source] : K \in SUBSET keys}

\* ActivityScope(name, snapshot, **kwargs) is created under the current one
NewActivityScope(t, snapshot, kwargs, limit) ==
    /\ Idle(t)
    /\ Len(acts) < limit
    /\ LET a == Len(acts) + 1
           parent == IF stack[t] = <<>> THEN 0 ELSE Top(stack[t])
       IN  /\ nodes' = Append(nodes, [value |-> a, parent |-> parent])
           /\ acts' = Append(acts, ActivityScope_init(snapshot, kwargs))
           /\ held' = Append(held, NoHeld)
           /\ stack' = [stack EXCEPT ![t] = Append(@, a)]
           /\ scope' = Append(scope, NewScope("ActivityScope", t, FALSE, "none", parent))
    /\ UNCHANGED <<current, current_logger, exc, log, spawned, _scope, decorated, filtered, Shared>>

\* the code of the activity calls log_info(snapshot=..., **kwargs) or one of
\* the other log methods, inside an except block (handling) or outside
ActivityScopeLog(t, call, snapshot, kwargs, handling) ==
    /\ Idle(t)
    /\ stack[t] # <<>>
    /\ LET a == Top(stack[t])
           r == ActivityScope_log(a, acts[a], call, snapshot, kwargs, handling)
       IN  /\ scope[a].api = "ActivityScope"
           /\ call \in ActivityScopeCalls
           /\ Len(log) < MaxLog \/ ~acts[a].in_progress
           /\ acts' = [acts EXCEPT ![a] = r.act]
           /\ log' = log \o r.out
           /\ exc' = [exc EXCEPT ![t] = r.exc]
    /\ UNCHANGED <<nodes, current, current_logger, stack, held, spawned, scope, _scope,
                   decorated, filtered, Shared>>

NextSnapshot ==
    \/ \E snapshot \in Dicts(SnapshotKeys, "init.snapshot"), kwargs \in Dicts({"k"}, "init.kwargs") :
           NewActivityScope(0, snapshot, kwargs, MaxAct)
    \/ \E c \in ActivityScopeCalls, handling \in BOOLEAN,
          snapshot \in Dicts({"k"}, "call.snapshot"), kwargs \in Dicts({"k"}, "call.kwargs") :
           ActivityScopeLog(0, c, snapshot, kwargs, handling)
    \/ Catch(0)

SpecSnapshot == Init /\ [][NextSnapshot]_vars

\* --------------------------------- formatting of arguments and results
\* a Python value: its type and its repr; a str produced by format() also
\* carries the format spec it was rendered with ("" is the default format)
Py(type, val) == [type |-> type, val |-> val, spec |-> ""]
PyNone == Py("NoneType", "None")
PyTrue == Py("bool", "True")
PyFalse == Py("bool", "False")
EmptyStr == Py("str", "")

\* truth value testing: None, False, 0 and the empty string are false
truthy(x) ==
    ~ \/ x.type = "NoneType"
      \/ x = PyFalse
      \/ x.type = "int" /\ x.val = "0"
      \/ x.type = "str" /\ x.val = ""

\* x or ""
or_empty(x) == IF truthy(x) THEN x ELSE EmptyStr

\* the builtin format(value, format_spec): str(value) for the default
\* format, the empty string stays empty
format(value, format_spec) ==
    IF value.type = "str" /\ value.val = "" THEN EmptyStr
    ELSE [type |-> "str", val |-> value.val, spec |-> format_spec.val]

callable(x) == x.type = "function"

\* the formatters of the tests: one_dec_place and two_dec_places
one_dec_place == Py("function", "one_dec_place")
two_dec_places == Py("function", "two_dec_places")
apply(f, value) ==
    IF f = one_dec_place THEN format(value, Py("str", ".1"))
    ELSE format(value, Py("str", ".2"))

\* a dict is the sequence of its <<key, value>> items in insertion order
Keys(d) == {d[i][1] : i \in DOMAIN d}
Get(d, k) == d[CHOOSE i \in DOMAIN d : d[i][1] = k][2]
Put(d, k, v) ==
    IF k \in Keys(d) THEN [i \in DOMAIN d |-> IF d[i][1] = k THEN <<k, v>> ELSE d[i]]
    ELSE Append(d, <<k, v>>)
PyDict(items) == [type |-> "dict", items |-> items]

\* FormatArgs.filter: the loop over args_format.items()
RECURSIVE FormatArgs_items(_, _, _)
FormatArgs_items(items, args_native, args_formatted) ==
    IF items = <<>> THEN [raised |-> NoExc, args |-> args_formatted]
    ELSE LET arg_name == Head(items)[1]
             arg_format == or_empty(Head(items)[2])
         IN  IF arg_name \notin Keys(args_native)
             THEN [raised |-> "ArgNotFound", args |-> args_formatted]
             ELSE LET arg == Get(args_native, arg_name)
                  IN  IF arg = PyNone
                      THEN FormatArgs_items(Tail(items), args_native, args_formatted)
                      ELSE IF arg_format.type = "str"
                      THEN FormatArgs_items(Tail(items), args_native,
                               Put(args_formatted, arg_name, format(arg, arg_format)))
                      ELSE IF callable(arg_format)
                      THEN FormatArgs_items(Tail(items), args_native,
                               Put(args_formatted, arg_name, apply(arg_format, arg)))
                      ELSE [raised |-> "InvalidArgFormat", args |-> args_formatted]

\* FormatArgs.filter: the details of the record after the filter, or the
\* exception it raises
FormatArgs_filter(args_native, args_format) ==
    LET items == IF args_format.type = "bool"
                 THEN IF args_format = PyTrue
                      THEN [i \in DOMAIN args_native |-> <<args_native[i][1], EmptyStr>>]
                      ELSE <<>>
                 ELSE args_format.items
        r == FormatArgs_items(items, args_native, <<>>)
    IN  [by |-> "FormatArgs", raised |-> r.raised,
         details |-> IF r.raised = NoExc /\ r.args # <<>> THEN <<<<"args", r.args>>>> ELSE <<>>]

\* FormatResult.filter
FormatResult_filter(result_native, result_format) ==
    LET spec == or_empty(IF result_format.type = "bool" THEN EmptyStr ELSE result_format)
        r == IF result_native = PyNone \/ result_format = PyFalse
             THEN [raised |-> NoExc, result |-> EmptyStr]
             ELSE IF spec.type = "str"
             THEN [raised |-> NoExc, result |-> format(result_native, spec)]
             ELSE IF callable(spec)
             THEN [raised |-> NoExc, result |-> apply(spec, result_native)]
             ELSE [raised |-> "ValueError", result |-> EmptyStr]
    IN  [by |-> "FormatResult", raised |-> r.raised,
         details |-> IF truthy(r.result) THEN <<<<"result", r.result>>>> ELSE <<>>]

\* create_result_details of wiretap.py
create_result_details(result, result_format) ==
    LET formatted == format(or_empty(result_format), EmptyStr)
    IN  [by |-> "create_result_details", raised |-> NoExc,
         details |-> IF result = PyNone \/ result_format = PyNone THEN <<>>
                     ELSE IF truthy(formatted) THEN <<<<"result", formatted>>>>
                     ELSE <<>>]

\* the values a call passes and returns, and the format specs
Values == {PyNone, Py("float", "0.15"), EmptyStr}
ValidSpecs == {PyNone, EmptyStr, Py("str", ".1"), one_dec_place}
InvalidSpecs == {Py("int", "0"), Py("int", "7"), PyTrue}
\* "x" and "y" are the parameters of the decorated function, "z" is not
ArgNames == {"x", "z"}
ArgsFormats ==
    {PyTrue, PyFalse, PyDict(<<>>)}
    \cup {PyDict(<<<<n, s>>>>) : n \in ArgNames, s \in ValidSpecs \cup InvalidSpecs}
    \cup {PyDict(<<<<n[1], s>>, <<n[2], t>>>>) :
              n \in {<<"x", "z">>, <<"z", "x">>, <<"y", "x">>},
              s \in ValidSpecs \cup InvalidSpecs, t \in ValidSpecs \cup InvalidSpecs}
ResultFormats ==
    {PyTrue, PyFalse, PyNone, EmptyStr, Py("str", ".2"), two_dec_places,
     Py("int", "0"), Py("int", "7")}
Calls ==
    [args_native : {<<<<"x", v>>, <<"y", w>>>> : v \in Values, w \in {PyNone, Py("float", "0.15")}},
     args_format : ArgsFormats,
     result_native : Values,
     result_format : ResultFormats]

\* a decorated function is called with these arguments and decorator options
InitFormat ==
    /\ acts = <<>>
    /\ nodes = <<>>
    /\ current = [t \in Ctx |-> 0]
    /\ current_logger = [t \in Ctx |-> 0]
    /\ stack = [t \in Ctx |-> <<>>]
    /\ exc = [t \in Ctx |-> NoExc]
    /\ log = <<>>
    /\ held = <<>>
    /\ spawned = [t \in Ctx |-> [alive |-> t = 0, by |-> 0, base |-> 0]]
    /\ scope = <<>>
    /\ _scope = [t \in Ctx |-> 0]
    /\ decorated \in Calls
    /\ filtered = <<>>
    /\ NoShared

Scopes == <<acts, nodes, current, current_logger, stack, exc, log, held, spawned, scope, _scope>>

\* telemetry.py decorator: log_begin with args_native and args_format in the
\* details; the record passes FormatArgs
LogBegin ==
    /\ filtered = <<>>
    /\ filtered' = <<FormatArgs_filter(decorated.args_native, decorated.args_format)>>
    /\ UNCHANGED <<Scopes, decorated, Shared>>

\* telemetry.py decorator: the function returned; log_end with result_native
\* and result_format in the details; the record passes FormatResult
LogEnd ==
    /\ Len(filtered) = 1
    /\ filtered[1].by = "FormatArgs"
    /\ filtered[1].raised = NoExc
    /\ filtered' = Append(filtered, FormatResult_filter(decorated.result_native, decorated.result_format))
    /\ UNCHANGED <<Scopes, decorated, Shared>>

\* wiretap.py decorator: the function returned; log_end with the details
\* create_result_details makes of the result and include_result
LogEndDetails ==
    /\ filtered = <<>>
    /\ decorated.result_format.type \in {"NoneType", "str"}
    /\ filtered' = <<create_result_details(decorated.result_native, decorated.result_format)>>
    /\ UNCHANGED <<Scopes, decorated, Shared>>

NextFormat == LogBegin \/ LogEnd \/ LogEndDetails

SpecFormat == InitFormat /\ [][NextFormat]_vars

\* ------------------------------------------- __init__.py: PieceOfWork
\* d.pop(k, None) of a dict: the value, and the dict that is left
Del(d, k) == SelectSeq(d, LAMBDA p : p[1] # k)
PopOr(d, k, default) == IF k \in Keys(d) THEN Get(d, k) ELSE default

\* PieceOfWork.__init__
PieceOfWork(attachment, parent) ==
    [finalized |-> FALSE, attachment |-> attachment, token |-> parent]

\* PieceOfWork._log: the status is the name of the calling method
PieceOfWork_log(a, W, status, kwargs) ==
    <<[activity |-> a, trace |-> status, details |-> kwargs, attachment |-> W.attachment]>>

PieceOfWork_started(a, W, kwargs) == Res(W, PieceOfWork_log(a, W, "started", kwargs), NoExc)
PieceOfWork_running(a, W) == Res(W, PieceOfWork_log(a, W, "running", <<>>), NoExc)
PieceOfWork_canceled(a, W) ==
    Res([W EXCEPT !.finalized = TRUE], PieceOfWork_log(a, W, "canceled", <<>>), NoExc)
PieceOfWork_faulted(a, W) ==
    IF ~W.finalized
    THEN Res([W EXCEPT !.finalized = TRUE], PieceOfWork_log(a, W, "faulted", <<>>), NoExc)
    ELSE Ok(W)
PieceOfWork_completed(a, W) ==
    IF ~W.finalized
    THEN Res([W EXCEPT !.finalized = TRUE], PieceOfWork_log(a, W, "completed", <<>>), NoExc)
    ELSE Ok(W)

WorkCalls == {"running", "canceled", "faulted", "completed"}
PieceOfWork_call(a, W, call) ==
    CASE call = "running" -> PieceOfWork_running(a, W)
      [] call = "canceled" -> PieceOfWork_canceled(a, W)
      [] call = "faulted" -> PieceOfWork_faulted(a, W)
      [] OTHER -> PieceOfWork_completed(a, W)

WorkApis == {"local", "telemetry"}
Attachments == {"None", "att"}
\* telemetry(...) was applied to a function with these keyword arguments
Decorators ==
    {[kwargs |-> <<>>],
     [kwargs |-> <<<<"attachment", "att">>>>],
     [kwargs |-> <<<<"attachment", "att">>, <<"tag", "v">>>>]}

InitWork ==
    /\ NoScopes
    /\ decorated = NoCall
    /\ filtered = <<>>
    /\ decorator \in Decorators
    /\ factory = <<>>
    /\ threads = <<>>
    /\ lock = 0
    /\ procedure_calls = <<>>

\* the scope of a new piece of work: the code up to the yield
OpenWork(t, api, W, kwargs) ==
    LET a == Len(acts) + 1
        r == PieceOfWork_started(a, W, kwargs)
    IN  /\ nodes' = Append(nodes, [value |-> a, parent |-> W.token])
        /\ _scope' = [_scope EXCEPT ![t] = Len(nodes) + 1]
        /\ acts' = Append(acts, r.act)
        /\ held' = Append(held, NoHeld)
        /\ log' = log \o r.out
        /\ stack' = [stack EXCEPT ![t] = Append(@, a)]
        /\ scope' = Append(scope, NewScope(api, t, TRUE, "none", W.token))

\* with local(name, details, attachment): up to the yield
Local(t, attachment, limit) ==
    /\ Idle(t)
    /\ Len(acts) < limit
    /\ OpenWork(t, "local", PieceOfWork(attachment, _scope[t]), <<>>)
    /\ UNCHANGED <<current, current_logger, exc, spawned, decorated, filtered, Shared>>

\* a call of a function decorated with telemetry(...): _context up to the
\* yield; the attachment is popped from the keyword arguments of telemetry
CallWork(t, limit) ==
    /\ Idle(t)
    /\ Len(acts) < limit
    /\ LET attachment == PopOr(decorator.kwargs, "attachment", "None")
           kwargs == Del(decorator.kwargs, "attachment")
       IN  /\ decorator' = [decorator EXCEPT !.kwargs = kwargs]
           /\ OpenWork(t, "telemetry", PieceOfWork(attachment, _scope[t]), kwargs)
    /\ UNCHANGED <<current, current_logger, exc, spawned, decorated, filtered,
                   factory, threads, lock, procedure_calls>>

\* the body calls a method of the piece of work it was given
WorkLog(t, call) ==
    /\ Idle(t)
    /\ stack[t] # <<>>
    /\ scope[Top(stack[t])].api \in WorkApis
    /\ Len(log) < MaxLog
    /\ LET a == Top(stack[t])
           r == PieceOfWork_call(a, acts[a], call)
       IN  /\ acts' = [acts EXCEPT ![a] = r.act]
           /\ log' = log \o r.out
    /\ UNCHANGED <<nodes, current, current_logger, stack, exc, held, spawned, scope, _scope,
                   decorated, filtered, Shared>>

\* local and _context after the yield: completed when the body returned,
\* faulted in the except Exception clause, and the finally clause
ExitWork(t) ==
    /\ spawned[t].alive
    /\ stack[t] # <<>>
    /\ scope[Top(stack[t])].api \in WorkApis
    /\ LET a == Top(stack[t])
           W == acts[a]
           r == CASE exc[t] = NoExc -> PieceOfWork_completed(a, W)
                  [] exc[t] \in NotAnException -> Ok(W)
                  [] OTHER -> PieceOfWork_faulted(a, W)
       IN  /\ acts' = [acts EXCEPT ![a] = r.act]
           /\ log' = log \o r.out
           /\ _scope' = [_scope EXCEPT ![t] = W.token]
           /\ stack' = [stack EXCEPT ![t] = Pop(@)]
           /\ scope' = [scope EXCEPT ![a] =
                  [@ EXCEPT !.state = "exited", !.kind = scope[a].api,
                            !.bodyExc = exc[t], !.outExc = exc[t], !.post = W.token]]
    /\ UNCHANGED <<nodes, current, current_logger, exc, held, spawned, decorated, filtered,
                   Shared>>

\* one execution context using local() and decorated functions
NextWork ==
    \/ \E at \in Attachments : Local(0, at, MaxScope)
    \/ CallWork(0, MaxScope)
    \/ \E c \in WorkCalls : WorkLog(0, c)
    \/ \E e \in AppErrors : Raise(0, e)
    \/ Cancel(0)
    \/ Catch(0)
    \/ ExitWork(0)

SpecWork == InitWork /\ [][NextWork]_vars

\* ------------------------------------ src/src/wiretap/wiretap.py: UnitOfWork
\* UnitOfWork.__init__: the instance that decorates the function
UnitOfWork == [_is_cancelled |-> FALSE]

\* UnitOfWorkScope.__init__: what a call hands to the decorated function
UnitOfWorkScope == [_uow |-> "self"]

\* UnitOfWork._log during call a: the status is the name of the calling method
UnitOfWork_log(a, status) == <<[activity |-> a, trace |-> status]>>

UnitOfWork_started(a, U) == Res(U, UnitOfWork_log(a, "started"), NoExc)
UnitOfWork_running(a, U) == Res(U, UnitOfWork_log(a, "running"), NoExc)
UnitOfWork_canceled(a, U) ==
    Res([U EXCEPT !._is_cancelled = TRUE], UnitOfWork_log(a, "canceled"), NoExc)
UnitOfWork_faulted(a, U) ==
    IF ~U._is_cancelled THEN Res(U, UnitOfWork_log(a, "faulted"), NoExc) ELSE Ok(U)
UnitOfWork_completed(a, U) ==
    IF ~U._is_cancelled THEN Res(U, UnitOfWork_log(a, "completed"), NoExc) ELSE Ok(U)

\* the methods of UnitOfWorkScope
UnitCalls == {"running", "canceled"}

InitUnit ==
    /\ NoScopes
    /\ decorated = NoCall
    /\ filtered = <<>>
    /\ decorator = UnitOfWork
    /\ factory = <<>>
    /\ threads = <<>>
    /\ lock = 0
    /\ procedure_calls = <<>>

\* a call of the decorated function: decorator up to the call of the
\* decoratee, through UnitOfWork.__enter__
CallUnit(t, limit) ==
    /\ Idle(t)
    /\ Len(acts) < limit
    /\ LET a == Len(acts) + 1
           parent == IF stack[t] = <<>> THEN 0 ELSE Top(stack[t])
           r == UnitOfWork_started(a, decorator)
       IN  /\ decorator' = r.act
           /\ nodes' = Append(nodes, [value |-> a, parent |-> parent])
           /\ acts' = Append(acts, UnitOfWorkScope)
           /\ held' = Append(held, NoHeld)
           /\ log' = log \o r.out
           /\ stack' = [stack EXCEPT ![t] = Append(@, a)]
           /\ scope' = Append(scope, NewScope("UnitOfWork", t, TRUE, "none", parent))
    /\ UNCHANGED <<current, current_logger, exc, spawned, _scope, decorated, filtered,
                   factory, threads, lock, procedure_calls>>

\* the decorated function calls running() or canceled() on its scope
UnitLog(t, call) ==
    /\ InBody(t, "UnitOfWork")
    /\ Len(log) < MaxLog
    /\ LET a == Top(stack[t])
           r == IF call = "running" THEN UnitOfWork_running(a, decorator)
                ELSE UnitOfWork_canceled(a, decorator)
       IN  /\ decorator' = r.act
           /\ log' = log \o r.out
    /\ UNCHANGED <<acts, nodes, current, current_logger, stack, exc, held, spawned, scope,
                   _scope, decorated, filtered, factory, threads, lock, procedure_calls>>

\* the decorated function is left: UnitOfWork.__exit__
ExitUnit(t) ==
    /\ spawned[t].alive
    /\ stack[t] # <<>>
    /\ scope[Top(stack[t])].api = "UnitOfWork"
    /\ LET a == Top(stack[t])
           r == IF exc[t] # NoExc THEN UnitOfWork_faulted(a, decorator)
                ELSE UnitOfWork_completed(a, decorator)
       IN  /\ decorator' = r.act
           /\ log' = log \o r.out
           /\ stack' = [stack EXCEPT ![t] = Pop(@)]
           /\ scope' = [scope EXCEPT ![a] =
                  [@ EXCEPT !.state = "exited", !.kind = "UnitOfWork",
                            !.bodyExc = exc[t], !.outExc = exc[t], !.post = scope[a].pre]]
    /\ UNCHANGED <<acts, nodes, current, current_logger, exc, held, spawned, _scope,
                   decorated, filtered, factory, threads, lock, procedure_calls>>

\* one execution context calling a function decorated with a UnitOfWork
NextUnit ==
    \/ CallUnit(0, MaxScope)
    \/ \E c \in UnitCalls : UnitLog(0, c)
    \/ \E e \in AppErrors : Raise(0, e)
    \/ Catch(0)
    \/ ExitUnit(0)

SpecUnit == InitUnit /\ [][NextUnit]_vars

\* ------------------------------------------- the log record factory
MaxThread == 2   \* threads that log concurrently
Threads == 1..MaxThread

\* the context manager a log call goes through: _use_custom_log_record of
\* wiretap.py (Logger.log_trace) or _create_log_record of __init__.py
\* (PieceOfWork._log)
FactoryScopes == {"_use_custom_log_record", "_create_log_record"}

\* a thread outside any log call
IdleThread == [pc |-> "idle", scope |-> "", default |-> <<>>]

\* the record factory is the sequence of the custom factories wrapped around
\* the one of logging, the outermost last; each is named after the thread
\* whose activity it stamps on the record. custom(): the record of the
\* wrapped factory with the actions applied
custom(default, name) == Append(default, name)

\* the function name on a record made by the factory for a call of thread
\* th: the last action applied sets it; 0 is the name logging itself
\* finds, that of the function calling it
funcName(f, th) == IF f = <<>> THEN 0 ELSE f[Len(f)]

InitFactory ==
    /\ NoScopes
    /\ decorated = NoCall
    /\ filtered = <<>>
    /\ decorator = <<>>
    /\ factory = <<>>
    /\ threads = [th \in Threads |-> IdleThread]
    /\ lock = 0
    /\ procedure_calls = <<>>

NotFactory == <<acts, nodes, current, current_logger, stack, exc, held, spawned, scope, _scope,
                decorated, filtered, decorator, lock, procedure_calls>>

\* default = logging.getLogRecordFactory()
GetLogRecordFactory(th, s) ==
    /\ threads[th].pc = "idle"
    /\ Len(log) < MaxLog
    /\ threads' = [threads EXCEPT ![th] = [pc |-> "got", scope |-> s, default |-> factory]]
    /\ UNCHANGED <<NotFactory, factory, log>>

\* logging.setLogRecordFactory(custom)
SetCustomFactory(th) ==
    /\ threads[th].pc = "got"
    /\ factory' = custom(threads[th].default, th)
    /\ threads' = [threads EXCEPT ![th].pc = "set"]
    /\ UNCHANGED <<NotFactory, log>>

\* the body of the with statement: logging makes the record with the
\* factory installed at that moment and hands it on; a filter or a handler
\* may raise. _create_log_record has no try/finally around its yield, so
\* the exception ends it; _use_custom_log_record goes on to its finally
LogRecord(th, raises) ==
    /\ threads[th].pc = "set"
    /\ log' = Append(log, [activity |-> th, trace |-> "record",
                           funcName |-> funcName(factory, th)])
    /\ threads' = [threads EXCEPT ![th] =
           IF raises /\ threads[th].scope = "_create_log_record"
           THEN IdleThread ELSE [@ EXCEPT !.pc = "logged"]]
    /\ UNCHANGED <<NotFactory, factory>>

\* logging.setLogRecordFactory(default)
RestoreFactory(th) ==
    /\ threads[th].pc = "logged"
    /\ factory' = threads[th].default
    /\ threads' = [threads EXCEPT ![th] = IdleThread]
    /\ UNCHANGED <<NotFactory, log>>

\* threads that log traces of their activities
NextFactory ==
    \/ \E th \in Threads, s \in FactoryScopes : GetLogRecordFactory(th, s)
    \/ \E th \in Threads : SetCustomFactory(th)
    \/ \E th \in Threads, raises \in BOOLEAN : LogRecord(th, raises)
    \/ \E th \in Threads : RestoreFactory(th)

SpecFactory == InitFactory /\ [][NextFactory]_vars

\* ------------------------------------- ProcedureContext.times and threads
ProcedureNames == {"f", "g"}

\* ProcedureContext.__init__ up to the with statement; times is not assigned
\* yet (0). order is history, not a field: the position of the object among
\* those of its name path in the order they entered the with statement
ProcedureContext_init(name, parent) ==
    [in_progress |-> TRUE, trace_count |-> 0, name |-> name, parent |-> parent,
     times |-> 0, order |-> 0]

\* key = tuple((p.name for p in self)): the names from the object up to the root
RECURSIVE NamePath(_)
NamePath(a) == IF a = 0 THEN <<>> ELSE <<acts[a].name>> \o NamePath(acts[a].parent)

\* procedure_calls.get() is the one defaultdict given as default; calls[key]
calls_get(key) == PopOr(procedure_calls, key, 0)

\* a thread outside ProcedureContext.__init__
IdleCreator == [pc |-> "idle", self |-> 0, value |-> 0]

InitProcedure ==
    /\ NoScopes
    /\ decorated = NoCall
    /\ filtered = <<>>
    /\ decorator = <<>>
    /\ factory = <<>>
    /\ threads = [th \in Threads |-> IdleCreator]
    /\ lock = 0
    /\ procedure_calls = <<>>

NotProcedure == <<nodes, current, current_logger, stack, exc, log, held, spawned, scope, _scope,
                  decorated, filtered, decorator, factory>>

\* thread th calls ProcedureContext(frame, parent, name, ...): the lines
\* before the with statement
NewProcedure(th, name, parent, limit) ==
    /\ threads[th].pc = "idle"
    /\ Len(acts) < limit
    /\ parent = 0 \/ (parent \in DOMAIN acts /\ acts[parent].times # 0)
    /\ acts' = Append(acts, ProcedureContext_init(name, parent))
    /\ threads' = [threads EXCEPT ![th] = [pc |-> "init", self |-> Len(acts) + 1, value |-> 0]]
    /\ UNCHANGED <<NotProcedure, lock, procedure_calls>>

\* a with statement that does not wait for the lock
AcquireLock_unlocked(th) ==
    /\ threads[th].pc = "init"
    /\ LET a == threads[th].self
           same == {b \in DOMAIN acts : acts[b].order # 0 /\ NamePath(b) = NamePath(a)}
       IN  acts' = [acts EXCEPT ![a].order = Cardinality(same) + 1]
    /\ lock' = th
    /\ threads' = [threads EXCEPT ![th].pc = "locked"]
    /\ UNCHANGED <<NotProcedure, procedure_calls>>

\* with ProcedureContext.lock: the thread waits until the lock is free
AcquireLock(th) ==
    /\ threads[th].pc = "init"
    /\ lock = 0
    /\ LET a == threads[th].self
           same == {b \in DOMAIN acts : acts[b].order # 0 /\ NamePath(b) = NamePath(a)}
       IN  acts' = [acts EXCEPT ![a].order = Cardinality(same) + 1]
    /\ lock' = th
    /\ threads' = [threads EXCEPT ![th].pc = "locked"]
    /\ UNCHANGED <<NotProcedure, procedure_calls>>

\* calls[key] += 1: the value is read ...
ReadCalls(th) ==
    /\ threads[th].pc = "locked"
    /\ threads' = [threads EXCEPT ![th].pc = "read",
                                  ![th].value = calls_get(NamePath(threads[th].self))]
    /\ UNCHANGED <<NotProcedure, acts, lock, procedure_calls>>

\* ... and the sum is stored
WriteCalls(th) ==
    /\ threads[th].pc = "read"
    /\ procedure_calls' = Put(procedure_calls, NamePath(threads[th].self), threads[th].value + 1)
    /\ threads' = [threads EXCEPT ![th].pc = "written"]
    /\ UNCHANGED <<NotProcedure, acts, lock>>

\* self.times = calls[key] and the end of the with statement
SetTimes(th) ==
    /\ threads[th].pc = "written"
    /\ acts' = [acts EXCEPT ![threads[th].self].times = calls_get(NamePath(threads[th].self))]
    /\ lock' = 0
    /\ threads' = [threads EXCEPT ![th] = IdleCreator]
    /\ UNCHANGED <<NotProcedure, procedure_calls>>

\* threads that create procedures, also under the ones created before
NextProcedure ==
    \/ \E th \in Threads, name \in ProcedureNames, parent \in 0..MaxScope :
           NewProcedure(th, name, parent, MaxScope)
    \/ \E th \in Threads : AcquireLock(th)
    \/ \E th \in Threads : ReadCalls(th)
    \/ \E th \in Threads : WriteCalls(th)
    \/ \E th \in Threads : SetTimes(th)

SpecProcedure == InitProcedure /\ [][NextProcedure]_vars

\* ------------------------------------------------------------- properties
RecordsOf(a) == {i \in DOMAIN log : log[i].activity = a}
GroupOf(a, g) == {i \in RecordsOf(a) : log[i].group = g}
Tracing(a) == scope[a].api = "tracing"
Min(S) == CHOOSE x \in S : \A y \in S : x <= y

\* the body of context 0 can call activity a
Callable(a) == InBody(0, "tracing") /\ a = Top(stack[0])

\* the call raises e and hands nothing to the logger
Raises(r, e) == r.exc = e /\ r.out = <<>>

\* C1: while no start trace has been logged for an activity, logging any
\* other or final trace (the builder the body holds, or a new one) raises
\* ActivityStartMissing and hands no record to the logger.
C1_StartMissing ==
    \A a \in DOMAIN acts :
        (Callable(a) /\ GroupOf(a, "start") = {})
            => /\ held[a].tr.log \in {"other", "final"}
                    => Raises(Trace_log(a, acts[a], held[a].tr), "ActivityStartMissing")
               /\ acts[a].pending = ""
                    => \A tr \in BodyOther \cup BodyFinal :
                           Raises(TraceAndLog(a, acts[a], tr), "ActivityStartMissing")

\* C2: a start trace logged on an activity that already logged one raises
\* ActivityAlreadyStarted and emits nothing; an activity never has more than
\* one start record.
C2_NoSecondStart ==
    \A a \in DOMAIN acts :
        /\ Cardinality(GroupOf(a, "start")) <= 1
        /\ (Callable(a) /\ GroupOf(a, "start") # {})
            => /\ held[a].tr.log = "start"
                    => Raises(Trace_log(a, acts[a], held[a].tr), "ActivityAlreadyStarted")
               /\ acts[a].pending = ""
                    => Raises(TraceAndLog(a, acts[a], trace_begin), "ActivityAlreadyStarted")

\* an auto-begun activity whose body logged begin once more and was refused
C2_Witness ==
    \E a \in DOMAIN acts :
        /\ Tracing(a) /\ scope[a].auto_begin /\ scope[a].state = "open"
        /\ held[a] = [tr |-> trace_begin, logged |-> TRUE]
        /\ Cardinality(GroupOf(a, "start")) = 1
        /\ exc[0] = "ActivityAlreadyStarted"

\* C3: an activity never has more than one final record, and once it has
\* one, every further final trace call  activity.final.trace_x().log()  made
\* after the earlier builder was logged raises nothing and emits nothing.
C3_FinalIgnored ==
    \A a \in DOMAIN acts :
        /\ Cardinality(GroupOf(a, "final")) <= 1
        /\ (Callable(a) /\ GroupOf(a, "final") # {} /\ held[a].logged)
            => \A tr \in BodyFinal : Raises(TraceAndLog(a, acts[a], tr), NoExc)

\* C4: an auto-begun scope without on_error hook whose body raised an
\* application exception has exactly one final record, named error, with
\* error level and exception info, and the same exception left the scope.
C4_ErrorTrace ==
    \A a \in DOMAIN scope :
        (/\ Tracing(a) /\ scope[a].state = "exited" /\ scope[a].auto_begin
         /\ scope[a].bodyExc \notin ProtocolErrors \cup {NoExc}
         /\ scope[a].on_error = "none")
            => /\ Cardinality(GroupOf(a, "final")) = 1
               /\ \A i \in GroupOf(a, "final") :
                      log[i].trace = "error" /\ log[i].level = "ERROR" /\ log[i].exc_info
               /\ scope[a].outExc = scope[a].bodyExc

\* C5: after a scope whose body returned or raised an application exception
\* has exited, current_activity is what it was before the scope was entered.
C5_RoundTrip ==
    \A a \in DOMAIN scope :
        (Tracing(a) /\ scope[a].state = "exited" /\ scope[a].bodyExc \notin ProtocolErrors)
            => scope[a].post = scope[a].pre

\* C6: on every path out of __enter__ and __exit__, also when __enter__ or
\* __exit__ itself raises, current_activity is reset to its value before
\* __enter__.
C6_ExceptionSafe ==
    \A a \in DOMAIN scope :
        (Tracing(a) /\ scope[a].state \in {"exited", "failed"})
            => scope[a].post = scope[a].pre

\* two tasks created by the same context
Siblings(t, u) ==
    /\ t # u /\ t # 0 /\ u # 0
    /\ spawned[t].alive /\ spawned[u].alive
    /\ spawned[t].by = spawned[u].by

\* C7: the parent of an activity opened in one task is never an activity
\* opened in a sibling task.
C7_NoCrossLink ==
    \A a \in DOMAIN nodes :
        nodes[a].parent # 0 => ~Siblings(scope[a].ctx, scope[nodes[a].parent].ctx)

\* two sibling tasks have a scope open at the same time
C7_Witness ==
    \E a, b \in DOMAIN scope :
        /\ Siblings(scope[a].ctx, scope[b].ctx)
        /\ scope[a].state = "open" /\ scope[b].state = "open"

\* context u enters or leaves a scope
ScopeStep(u) ==
    \/ \E b \in AsyncBegins : Enter(u, b[1], b[2], MaxScope)
    \/ Exit(u, "begin_activity", "none")

\* C8: the first activity a task opens has as parent the activity that was
\* current in the creating context when the task was created, and entering
\* or leaving a scope in one context leaves the slot of every other context
\* unchanged.
C8_TaskIsolation ==
    /\ [](\A a \in DOMAIN scope :
             (scope[a].ctx # 0 /\ \A b \in 1..(a - 1) : scope[b].ctx # scope[a].ctx)
                 => nodes[a].parent = spawned[scope[a].ctx].base)
    /\ [][\A u \in Ctx :
             ScopeStep(u) => \A t \in Ctx \ {u} : current'[t] = current[t]]_vars

\* a task opened and left a scope under the activity it inherited, which is
\* still the current one of its creator
C8_Witness ==
    \E a \in DOMAIN scope :
        /\ scope[a].ctx # 0 /\ scope[a].state = "exited"
        /\ scope[a].pre # 0 /\ nodes[a].parent = scope[a].pre
        /\ current[spawned[scope[a].ctx].by] = scope[a].pre

\* C9: a scope entered with auto_begin has exactly one start record, it is
\* named begin and carries what the on_begin hook added, and it is the first
\* record of the activity.
C9_AutoBegin ==
    \A a \in DOMAIN scope :
        (Tracing(a) /\ scope[a].auto_begin /\ scope[a].state # "failed")
            => /\ Cardinality(GroupOf(a, "start")) = 1
               /\ LET first == log[Min(RecordsOf(a))]
                  IN  /\ first.group = "start" /\ first.trace = "begin"
                      /\ first.level = "INFO"
                      /\ first.message = IF scope[a].on_begin = "hook" THEN "hooked" ELSE ""

\* an auto-begun scope with an on_begin hook that went on to log more
C9_Witness ==
    \E a \in DOMAIN scope :
        /\ Tracing(a) /\ scope[a].auto_begin /\ scope[a].on_begin = "hook"
        /\ Cardinality(RecordsOf(a)) >= 3

NewRecords == {i \in DOMAIN log' : i > Len(log)}

\* C10: a lifecycle error in flight when a scope is left (raised by the body
\* or by the trailing end trace) leaves the scope unchanged: on_error is not
\* called and no error or abort record is emitted; the same for
\* InitialTraceMissing in telemetry_context.
C10_ProtocolErrors ==
    [][/\ \A k \in Kinds, h \in Hooks :
             Exit(0, k, h) =>
                 /\ exc[0] \in ProtocolErrors =>
                        /\ exc'[0] = exc[0] /\ log' = log
                        /\ scope'[Top(stack[0])].hooks = <<>>
                 /\ (exc[0] = NoExc /\ exc'[0] \in ProtocolErrors) =>
                        /\ scope'[Top(stack[0])].hooks = <<>>
                        /\ \A i \in NewRecords : log'[i].trace \notin {"error", "abort"}
       /\ \A k \in TelemetryKinds, h \in Hooks :
             (ExitTelemetry(0, k, h) /\ exc[0] = "InitialTraceMissing") =>
                 /\ exc'[0] = exc[0] /\ log' = log
                 /\ scope'[Top(stack[0])].hooks = <<>>]_vars

\* a scope with a LogAbortWhen hook that a lifecycle error has left
C10_Witness ==
    \E a \in DOMAIN scope :
        /\ Tracing(a) /\ scope[a].state = "exited" /\ scope[a].on_error = "LogAbortWhen"
        /\ scope[a].bodyExc \in ProtocolErrors
        /\ scope[a].outExc = scope[a].bodyExc

\* C11: an auto-begun scope with on_error = LogAbortWhen(E) whose body raised
\* an application exception has exactly one final record: abort at warning
\* level (and no error record) when the exception is an instance of E, error
\* otherwise; the same exception left the scope.
C11_AbortTrace ==
    \A a \in DOMAIN scope :
        (/\ Tracing(a) /\ scope[a].state = "exited" /\ scope[a].auto_begin
         /\ scope[a].on_error = "LogAbortWhen"
         /\ scope[a].bodyExc \in AppErrors)
            => /\ Cardinality(GroupOf(a, "final")) = 1
               /\ \A i \in GroupOf(a, "final") :
                      IF scope[a].bodyExc \in AbortExceptions
                      THEN log[i].trace = "abort" /\ log[i].level = "WARNING"
                      ELSE log[i].trace = "error"
               /\ scope[a].outExc = scope[a].bodyExc

\* C12: when the body of a begin_activity scope returns, leaving the scope
\* appends exactly the end record if the activity is started, has no final
\* record and no builder pending; if the activity has a final record and the
\* body logged the last final builder it obtained, leaving the scope appends
\* nothing and raises nothing.
C12_AutoEnd ==
    [][\A h \in Hooks :
          (Exit(0, "begin_activity", h) /\ exc[0] = NoExc)
              => LET a == Top(stack[0]) IN
                 /\ (GroupOf(a, "start") # {} /\ GroupOf(a, "final") = {} /\ acts[a].pending = "")
                        => log' = Append(log, Record(a, trace_end)) /\ exc'[0] = NoExc
                 /\ (GroupOf(a, "final") # {} /\ held[a].tr.log = "final" /\ held[a].logged)
                        => log' = log /\ exc'[0] = NoExc]_vars

\* C13: every scope opened through begin_activity has exactly one final
\* record once it has exited, however it was left.
C13_OneTerminal ==
    \A a \in DOMAIN scope :
        (Tracing(a) /\ scope[a].state = "exited" /\ scope[a].kind = "begin_activity")
            => Cardinality(GroupOf(a, "final")) = 1

\* C14: while the body holds a builder it has not logged, asking the activity
\* for any further builder raises PreviousTraceNotLogged carrying the new and
\* the pending name and leaves the activity as it was; the one registration
\* pending on an open activity is that of the builder obtained last.
C14_PendingBlocks ==
    \A a \in DOMAIN acts :
        Callable(a)
            => /\ (held[a].tr # NoTrace /\ ~held[a].logged)
                    => \A tr \in BodyTraces :
                           LET r == _factory(acts[a], tr) IN
                           /\ Raises(r, "PreviousTraceNotLogged")
                           /\ r.act = acts[a]
                           /\ PreviousTraceNotLogged(acts[a], tr.name)
                                  = [trace |-> tr.name, previous |-> held[a].tr.name]
               /\ acts[a].pending # "" => acts[a].pending = held[a].tr.name

\* the body asked for a second builder while the first was not logged
C14_Witness ==
    \E a \in DOMAIN acts :
        /\ Tracing(a) /\ scope[a].state = "open"
        /\ held[a].tr # NoTrace /\ ~held[a].logged
        /\ acts[a].pending = held[a].tr.name
        /\ exc[0] = "PreviousTraceNotLogged"

\* C15: every log() call on a registered builder that returns leaves no
\* registration pending, also when the final trace is ignored because the
\* activity is already finalized, so that the next builder can be obtained
\* without PreviousTraceNotLogged.
C15_LogClears ==
    \A a \in DOMAIN acts :
        (Callable(a) /\ held[a].tr # NoTrace /\ acts[a].pending = held[a].tr.name)
            => LET r == Trace_log(a, acts[a], held[a].tr) IN
               r.exc = NoExc
                   => /\ r.act.pending = ""
                      /\ \A tr \in BodyTraces : _factory(r.act, tr).exc = NoExc

\* C16: an activity is finalized only when a final record has been emitted
\* for it; a final log() that raises ActivityStartMissing leaves the
\* lifecycle state as it was.
C16_FinalizedWhenEmitted ==
    \A a \in DOMAIN acts :
        Tracing(a)
            => /\ acts[a].finalized => GroupOf(a, "final") # {}
               /\ (Callable(a) /\ held[a].tr.log = "final")
                    => LET r == Trace_log(a, acts[a], held[a].tr) IN
                       r.exc = "ActivityStartMissing" => r.act.finalized = acts[a].finalized

\* C17: whatever state the activity is in when its body raises an
\* application exception, that exception is the one that leaves the scope.
C17_NeverReplaced ==
    \A a \in DOMAIN scope :
        (Tracing(a) /\ scope[a].state = "exited" /\ scope[a].bodyExc \in AppErrors)
            => scope[a].outExc = scope[a].bodyExc

\* the lifecycle state of an activity: started and finalized
Lifecycle(A) == <<A.started, A.finalized>>

\* C18: on a started activity every log() of an other-trace (a builder the
\* body holds, logged for the first time or again, or a new one) raises
\* nothing, emits exactly one record carrying that trace and leaves the
\* lifecycle state as it was; the record is appended after all earlier ones.
C18_OtherTraces ==
    /\ [](\A a \in DOMAIN acts :
             (Callable(a) /\ acts[a].started)
                 => /\ held[a].tr.log = "other"
                         => LET r == Trace_log(a, acts[a], held[a].tr) IN
                            /\ r.exc = NoExc /\ r.out = <<Record(a, held[a].tr)>>
                            /\ Lifecycle(r.act) = Lifecycle(acts[a])
                    /\ acts[a].pending = ""
                         => \A tr \in BodyOther :
                                LET r == TraceAndLog(a, acts[a], tr) IN
                                /\ r.exc = NoExc /\ r.out = <<Record(a, tr)>>
                                /\ Lifecycle(r.act) = Lifecycle(acts[a]))
    /\ [][(Log(0) /\ held[Top(stack[0])].tr.log = "other" /\ acts[Top(stack[0])].started)
              => /\ log' = Append(log, Record(Top(stack[0]), held[Top(stack[0])].tr))
                 /\ Lifecycle(acts'[Top(stack[0])]) = Lifecycle(acts[Top(stack[0])])]_vars

\* a started activity that is not finalized after two other records
C18_Witness ==
    \E a \in DOMAIN acts :
        /\ Tracing(a) /\ scope[a].state = "open"
        /\ acts[a].started /\ ~acts[a].finalized
        /\ Cardinality(GroupOf(a, "other")) >= 2

\* the body of context 0 can call the trace logger of a
CallableLogger(a) == InBody(0, "wiretap") /\ a = Top(stack[0])

\* C19: while a begin_telemetry scope is open every active trace call
\* (log_info, log_item, log_skip, log_metric) emits exactly one record; an
\* initial or final group call emits one record unless a trace of its group
\* was logged before, and then none.
C19_ActiveTraces ==
    \A a \in DOMAIN acts :
        CallableLogger(a)
            => \A call \in TraceLoggerCalls :
                   LET r == TraceLoggerCall(a, acts[a], call)
                       repeated == \E i \in RecordsOf(a) : log[i].group = GroupOfCall(call)
                   IN  /\ r.exc = NoExc
                       /\ Len(r.out) = IF call \notin ActiveCalls /\ repeated THEN 0 ELSE 1

\* C20: once an activity has a final record, no start, other or final trace
\* call on it (the builder the body holds or a new one) emits another
\* record, and the activity stays finalized.
C20_FinalizedAbsorbing ==
    \A a \in DOMAIN acts :
        (Callable(a) /\ GroupOf(a, "final") # {})
            => /\ acts[a].finalized
               /\ held[a].tr # NoTrace
                    => LET r == Trace_log(a, acts[a], held[a].tr) IN
                       r.out = <<>> /\ r.act.finalized
               /\ acts[a].pending = ""
                    => \A tr \in BodyTraces :
                           LET r == TraceAndLog(a, acts[a], tr) IN
                           r.out = <<>> /\ r.act.finalized

\* the ancestors of node n: the nodes on its parent chain, n excluded
Ancestors(n) == {Node_iter(n)[i] : i \in 2..Len(Node_iter(n))}

\* C21: the depth of every node is the number of its ancestors plus one: 1
\* for a node entered while no activity was current, and the depth of P
\* plus one for a node entered while P was current; the five depth
\* computations agree.
C21_Depth ==
    \A n \in DOMAIN nodes :
        LET d == Node_depth(n) IN
        /\ d = Cardinality(Ancestors(n)) + 1
        /\ d = IF scope[n].pre = 0 THEN 1 ELSE Node_depth(scope[n].pre) + 1
        /\ ActivityScope_depth(n) = d
        /\ ProcedureContext_depth(n) = d
        /\ BasicLogger_depth(n) = d
        /\ Logger_depth(n) = d

\* a scope was entered while another one was current
C21_Witness ==
    \E n \in DOMAIN nodes : scope[n].pre # 0 /\ Node_depth(n) = 2 /\ scope[n].state = "open"

Reverse(q) == [i \in 1..Len(q) |-> q[Len(q) + 1 - i]]

\* C22: entering a scope makes a node whose parent is the value
\* current_activity had, and makes it current; in every context the parent
\* chain of the current node lists the scopes open in that context,
\* innermost first, followed by the chain the context was created with.
C22_ParentChain ==
    /\ [](\A t \in Ctx :
             spawned[t].alive
                 => Node_iter(current[t]) = Reverse(stack[t]) \o Node_iter(spawned[t].base))
    /\ [][\A t \in Ctx, b \in AsyncBegins :
             Enter(t, b[1], b[2], MaxScope)
                 => /\ nodes'[Len(nodes')].parent = current[t]
                    /\ current'[t] = Len(nodes')]_vars

\* the records of a that open (start) and close (final) the activity
BeginRecords(a) == {i \in RecordsOf(a) : log[i].group \in {"start", "initial"} /\ log[i].trace = "begin"}
FinalRecords(a) == {i \in RecordsOf(a) : log[i].group = "final"}

\* C23: records are emitted in program order with proper bracketing: every
\* record of an activity lies between its begin record and its final
\* record, and for an activity B opened inside A in the same context,
\* begin(A) precedes begin(B) and the final record of B precedes that of A.
C23_Bracketing ==
    \A b \in DOMAIN scope :
        /\ \A i \in RecordsOf(b) :
               /\ \A j \in BeginRecords(b) : j <= i
               /\ \A j \in FinalRecords(b) : i <= j
        /\ \A a \in DOMAIN scope :
               (nodes[b].parent = a /\ scope[a].ctx = scope[b].ctx)
                   => /\ \A i \in BeginRecords(a), j \in BeginRecords(b) : i < j
                      /\ \A i \in FinalRecords(a), j \in FinalRecords(b) : j < i

\* C24: when the body of a tracing.Activity scope is cancelled, the scope
\* has a final record once it has exited, current_activity is what it was
\* before the scope was entered, and CancelledError leaves the scope.
C24_CancelledActivity ==
    \A a \in DOMAIN scope :
        (Tracing(a) /\ scope[a].state = "exited" /\ scope[a].bodyExc \in NotAnException)
            => /\ FinalRecords(a) # {}
               /\ scope[a].post = scope[a].pre
               /\ scope[a].outExc = scope[a].bodyExc

\* the names of the traces that end an activity
TerminalNames == {"noop", "abort", "end", "error"}

\* C25: when the body of a generator-based scope (begin_telemetry of
\* wiretap.py, telemetry_context) is cancelled, the scope has a terminal
\* record once it has exited, its context slot is what it was before the
\* scope was entered, and CancelledError leaves the scope.
C25_CancelledGenerator ==
    \A a \in DOMAIN scope :
        (~Tracing(a) /\ scope[a].state = "exited" /\ scope[a].bodyExc \in NotAnException)
            => /\ \E i \in RecordsOf(a) : log[i].trace \in TerminalNames
               /\ scope[a].post = scope[a].pre
               /\ scope[a].outExc = scope[a].bodyExc

\* the format spec of an argument is neither a string, a callable nor None
InvalidArgSpec(s) == s.type \notin {"str", "function", "NoneType"}
\* include_result is a bool, or a spec as for an argument
InvalidResultSpec(s) == s.type \notin {"str", "function", "NoneType", "bool"}

\* C26: formatting configuration errors fail fast: when include_args names
\* a parameter that is not among the bound arguments FormatArgs raises
\* ArgNotFound, when a format spec is neither a string, a callable nor None
\* it raises InvalidArgFormat (FormatResult raises ValueError); the record
\* is never emitted as if the configuration were valid.
C26_FailFast ==
    \A i \in DOMAIN filtered :
        LET f == filtered[i]
        IN  /\ (f.by = "FormatArgs" /\ decorated.args_format.type = "dict")
                => LET items == decorated.args_format.items
                       missing == \E j \in DOMAIN items :
                                      items[j][1] \notin Keys(decorated.args_native)
                       invalid == \E j \in DOMAIN items : InvalidArgSpec(items[j][2])
                   IN  /\ (missing \/ invalid) => f.raised \in {"ArgNotFound", "InvalidArgFormat"}
                       /\ (missing /\ ~invalid) => f.raised = "ArgNotFound"
                       /\ (invalid /\ ~missing) => f.raised = "InvalidArgFormat"
            /\ (f.by = "FormatResult" /\ InvalidResultSpec(decorated.result_format))
                => f.raised = "ValueError"

\* the value a valid spec makes of a value: None and "" are the default
\* format, a string is a format spec, a callable is applied
Formatted(value, s) ==
    IF s.type \in {"NoneType", "bool"} THEN format(value, EmptyStr)
    ELSE IF s.type = "str" THEN format(value, s)
    ELSE apply(s, value)

\* the <<name, spec>> pairs include_args selects
Selected ==
    IF decorated.args_format = PyTrue
    THEN {<<n, EmptyStr>> : n \in Keys(decorated.args_native)}
    ELSE IF decorated.args_format = PyFalse THEN {}
    ELSE {decorated.args_format.items[j] : j \in DOMAIN decorated.args_format.items}

\* the configuration of the call is valid
ValidArgs ==
    \A p \in Selected : p[1] \in Keys(decorated.args_native) /\ ~InvalidArgSpec(p[2])

Items(d) == {d[j] : j \in DOMAIN d}

\* C27: details.args of the begin record holds exactly the selected
\* arguments whose value is not None, each formatted by its spec, and the
\* key is absent when there is none; details.result of the end record is
\* the return value formatted under the same rules.
C27_Details ==
    \A i \in DOMAIN filtered :
        LET f == filtered[i]
        IN  /\ (f.by = "FormatArgs" /\ ValidArgs)
                => LET expected ==
                           {<<p[1], Formatted(Get(decorated.args_native, p[1]), p[2])>> :
                               p \in {q \in Selected : Get(decorated.args_native, q[1]) # PyNone}}
                   IN  /\ f.raised = NoExc
                       /\ expected = {} => f.details = <<>>
                       /\ expected # {}
                            => /\ Keys(f.details) = {"args"}
                               /\ Items(Get(f.details, "args")) = expected
            /\ (f.by = "FormatResult" /\ ~InvalidResultSpec(decorated.result_format))
                => /\ f.raised = NoExc
                   /\ IF decorated.result_native = PyNone \/ decorated.result_format = PyFalse
                      THEN f.details = <<>>
                      ELSE f.details = <<<<"result", Formatted(decorated.result_native,
                                                              decorated.result_format)>>>>

\* C28: the decorator of wiretap.py, given include_result as a format spec
\* and a function that returns a value r other than None, emits an end
\* record whose details hold the key "result" with format(r, spec).
C28_ResultDetails ==
    \A i \in DOMAIN filtered :
        LET f == filtered[i]
        IN  (/\ f.by = "create_result_details"
             /\ decorated.result_format.type = "str"
             /\ decorated.result_native # PyNone)
                => /\ Keys(f.details) = {"result"}
                   /\ Get(f.details, "result")
                          = format(decorated.result_native, decorated.result_format)

\* C29: when a function decorated with telemetry() of wiretap.py logged a
\* final trace through the TraceLogger injected into its parameter and
\* returned, the decorator's own end trace is suppressed: the call emitted
\* exactly one record of the final group.
C29_TraceOnlyOnce ==
    \A a \in DOMAIN acts :
        (/\ scope[a].api = "wiretap.telemetry"
         /\ scope[a].state = "exited"
         /\ scope[a].bodyExc = NoExc
         /\ "final" \in acts[a].injected.traces)
            => Cardinality(GroupOf(a, "final")) = 1

\* the records of activity a that were logged with in_progress=False
LastRecords(a) == {i \in RecordsOf(a) : log[i].trace \in {"end", "exit", "error"}}

\* C30: once an ActivityScope or a ProcedureContext emitted a trace with
\* in_progress=False it is not in progress, and on an activity that is not
\* in progress every log method that passes in_progress=True raises and
\* emits nothing, every one that passes False returns silently and emits
\* nothing, and none of them changes the object.
C30_NotInProgress ==
    \A a \in DOMAIN acts :
        scope[a].api \in ScopeKinds
            => /\ LastRecords(a) # {} => ~acts[a].in_progress
               /\ Cardinality(LastRecords(a)) <= 1
               /\ ~acts[a].in_progress
                    => \A call \in (IF scope[a].api = "ActivityScope" THEN ActivityScopeCalls
                                    ELSE ProcedureContextCalls) :
                           LET r == Scope_log(a, acts[a], scope[a].api, call)
                           IN  /\ r.act = acts[a]
                               /\ r.out = <<>>
                               /\ r.exc = IF call \in InProgressCalls THEN "Exception" ELSE NoExc

\* an activity that logged its last trace was called again: a call with
\* in_progress=True raised
C30_Witness ==
    \E a \in DOMAIN acts :
        /\ scope[a].api \in ScopeKinds
        /\ LastRecords(a) # {}
        /\ ~acts[a].in_progress
        /\ exc[0] = "Exception"

\* the error records of activity a
ErrorRecords(a) == {i \in FinalRecords(a) : log[i].trace = "error"}

\* C31: when an application exception leaves the bodies of nested scopes
\* uncaught, every one of them has exactly one final record once it has
\* exited, an error record, the record of an inner scope precedes that of
\* the scope around it, and the slot holds what it held before the scope
\* was entered; a scope whose body ended without an exception in flight
\* (it caught the one of an inner scope) has an end record and no error
\* record.
C31_NestedErrors ==
    \A a \in DOMAIN scope :
        (Tracing(a) /\ scope[a].state = "exited")
            => /\ scope[a].bodyExc \in AppErrors
                    => /\ Cardinality(FinalRecords(a)) = 1
                       /\ Cardinality(ErrorRecords(a)) = 1
                       /\ scope[a].post = scope[a].pre
                       /\ \A b \in DOMAIN scope :
                              (/\ nodes[a].parent = b /\ scope[b].ctx = scope[a].ctx
                               /\ scope[b].state = "exited" /\ scope[b].bodyExc \in AppErrors)
                                  => \A i \in ErrorRecords(a), j \in ErrorRecords(b) : i < j
               /\ (/\ scope[a].bodyExc = NoExc
                   /\ \E c \in DOMAIN scope :
                          /\ nodes[c].parent = a /\ scope[c].ctx = scope[a].ctx
                          /\ scope[c].state = "exited" /\ scope[c].outExc \in AppErrors)
                    => /\ ErrorRecords(a) = {}
                       /\ \E i \in FinalRecords(a) : log[i].trace = "end"

\* the terminal records of a piece of work
TerminalRecords(a) == {i \in RecordsOf(a) : log[i].trace \in {"canceled", "faulted", "completed"}}

\* C32: whatever canceled, faulted and completed calls are made on one
\* PieceOfWork, by the body or by local() and the decorator when the scope
\* is left, at most one terminal record is emitted for it.
C32_OneTerminalRecord ==
    \A a \in DOMAIN acts :
        scope[a].api \in WorkApis => Cardinality(TerminalRecords(a)) <= 1

\* the calls of the decorated function
WorkOfDecorator == {a \in DOMAIN acts : scope[a].api = "telemetry"}

\* C38: the attachment configured on the telemetry decorator of __init__.py
\* is attached to the records of every call of the decorated function: the
\* piece of work of every call has the attachment of the first call, and
\* every record carries the attachment of its piece of work.
C38_SameAttachment ==
    \A a \in WorkOfDecorator :
        /\ \A b \in WorkOfDecorator : acts[a].attachment = acts[b].attachment
        /\ \A i \in RecordsOf(a) : log[i].attachment = acts[a].attachment

\* the records of call a with one of these statuses
StatusRecords(a, statuses) == {i \in RecordsOf(a) : log[i].trace \in statuses}

\* C39: for a UnitOfWork used as a decorator, every invocation that has
\* returned or raised has its started record first; its completed or
\* faulted record is missing when canceled() was called during that
\* invocation, and otherwise there is exactly one.
C39_CancelPerCall ==
    \A a \in DOMAIN acts :
        (scope[a].api = "UnitOfWork" /\ scope[a].state = "exited")
            => /\ log[Min(RecordsOf(a))].trace = "started"
               /\ Cardinality(StatusRecords(a, {"started"})) = 1
               /\ Cardinality(StatusRecords(a, {"completed", "faulted"}))
                      = IF StatusRecords(a, {"canceled"}) # {} THEN 0 ELSE 1

\* C33: trace emission leaves no shared state behind: whenever no thread
\* is inside a log call the process-wide record factory is the one that
\* was installed before the calls, and every record carries the function
\* name of the activity of the thread that logged it.
C33_FactoryRestored ==
    /\ (\A th \in DOMAIN threads : threads[th].pc = "idle") => factory = <<>>
    /\ \A i \in DOMAIN log :
           "funcName" \in DOMAIN log[i] => log[i].funcName = log[i].activity

\* the final records of an ActivityScope and its other records
SnapshotFinal == {"end", "exit", "error"}
InitValues == {"init.snapshot", "init.kwargs"}

\* C34: every final record (end, exit, error) of an ActivityScope carries
\* each key of the snapshot the activity was created with, with the
\* activity's value unless the call gave the key as a keyword argument (a
\* same-named key of the call's snapshot argument loses); the record of an
\* info, metric or branch trace holds nothing of the activity's snapshot
C34_ActivitySnapshot ==
    \A a \in DOMAIN acts :
        scope[a].api = "ActivityScope"
            => /\ \A i \in RecordsOf(a) :
                      IF log[i].trace \in SnapshotFinal
                      THEN \A k \in DOMAIN acts[a].snapshot :
                               /\ k \in DOMAIN log[i].note
                               /\ log[i].note[k] \in {acts[a].snapshot[k], "call.kwargs"}
                      ELSE \A k \in DOMAIN log[i].note : log[i].note[k] \notin InitValues
               /\ acts[a].in_progress
                    => \A call \in SnapshotFinal, handling \in BOOLEAN,
                          snapshot \in Dicts({"k"}, "call.snapshot"),
                          kwargs \in Dicts({"k"}, "call.kwargs") :
                           LET r == ActivityScope_log(a, acts[a], call, snapshot, kwargs, handling)
                           IN  /\ Len(r.out) = 1
                               /\ \A k \in DOMAIN acts[a].snapshot :
                                      /\ k \in DOMAIN r.out[1].note
                                      /\ r.out[1].note[k] =
                                             IF k \in DOMAIN kwargs THEN kwargs[k]
                                             ELSE acts[a].snapshot[k]

\* an activity created with snapshot and keyword argument has logged an info
\* trace with a snapshot and then an error: the final record holds the
\* activity's values, also for the key "reason"
C34_Witness ==
    \E a \in DOMAIN acts :
        /\ scope[a].api = "ActivityScope"
        /\ acts[a].snapshot = [k \in SnapshotKeys |->
                                   IF k = "k" THEN "init.kwargs" ELSE "init.snapshot"]
        /\ \E i, j \in RecordsOf(a) :
               /\ i < j
               /\ log[i].trace = "info" /\ log[i].note = [k \in {"k"} |-> "call.snapshot"]
               /\ log[j].trace = "error" /\ log[j].note = acts[a].snapshot

\* the three lifecycle fields of an Activity
LifecycleState(A) == <<A.started, A.pending, A.finalized>>

\* C35: a step in which an activity logs a start trace, registers a pending
\* trace, logs it or is finalized changes the started flag, the pending
\* name and the finalized flag of that activity only (the innermost one of
\* the context); entering a new activity changes none of the others
C35_PerInstance ==
    [][\A b \in DOMAIN acts :
          LifecycleState(acts'[b]) # LifecycleState(acts[b])
              => stack[0] # <<>> /\ b = Top(stack[0])]_vars

\* a parent with a registered trace that is started and not finalized, and
\* its child, started on entry and finalized on exit
C35_Witness ==
    \E a, b \in DOMAIN acts :
        /\ Tracing(a) /\ Tracing(b)
        /\ scope[b].pre = a /\ scope[b].state = "exited"
        /\ LifecycleState(acts[a]) \in {<<TRUE, tr.name, FALSE>> : tr \in BodyOther}
        /\ acts[b].started /\ acts[b].finalized

\* C37: the trace_count of a ProcedureContext is the number of records the
\* procedure has handed to the logger, also after calls that were rejected
\* or ignored, and its n-th record is handed over with trace_count = n, so
\* that the first record and no other one sees the value 1
C37_TraceCount ==
    \A a \in DOMAIN acts :
        scope[a].api = "ProcedureContext"
            => /\ acts[a].trace_count = Cardinality(RecordsOf(a))
               /\ \A i \in RecordsOf(a) :
                      log[i].trace_count = Cardinality({j \in RecordsOf(a) : j <= i})

\* a procedure that handed over two records, the second one final, and then
\* rejected a call
C37_Witness ==
    \E a \in DOMAIN acts :
        /\ scope[a].api = "ProcedureContext"
        /\ acts[a].trace_count = 2
        /\ ~acts[a].in_progress
        /\ exc[0] = "Exception"

\* the procedures whose constructor has returned
Constructed == {a \in DOMAIN acts : acts[a].times # 0}

\* C36: of the procedures that threads create concurrently, the n-th one
\* with a given name path (in the order they enter the locked block) gets
\* times = n, so no two procedures with the same name path have the same
\* times, and the counter of a name path is the number of procedures counted
C36_Times ==
    /\ \A a \in Constructed :
           /\ acts[a].times = acts[a].order
           /\ \A b \in Constructed :
                  (a # b /\ NamePath(a) = NamePath(b)) => acts[a].times # acts[b].times
    /\ \A i \in DOMAIN procedure_calls :
           procedure_calls[i][2] =
               Cardinality({a \in DOMAIN acts : /\ NamePath(a) = procedure_calls[i][1]
                                                /\ \/ acts[a].times # 0
                                                   \/ \E th \in DOMAIN threads :
                                                          /\ threads[th].self = a
                                                          /\ threads[th].pc = "written"})

\* two threads were inside the constructor at the same time, for procedures
\* with the same name path: one has got times 1, the other is about to get 2
C36_Witness ==
    \E a, b \in DOMAIN acts, th \in DOMAIN threads :
        /\ NamePath(a) = NamePath(b)
        /\ acts[a].times = 1
        /\ threads[th].self = b /\ threads[th].pc = "written"
        /\ b < a
        /\ calls_get(NamePath(b)) = 2

====
